---- MODULE Spec2Model ----
(***************************************************************************)
(* Model of the PR-review swarm orchestrator (venikman/a2a-mcp):           *)
(*   - the per-endpoint circuit breaker      (src/shared/circuit-breaker)  *)
(*   - the invoker and its fan-out           (src/orchestrator/invoker.ts) *)
(*   - the findings merger                   (src/orchestrator/merger.ts)  *)
(*   - the tool server's /call pipeline      (src/tool-server/server.ts)   *)
(*   - the agents' JSON-RPC handler          (src/agents/base.ts)          *)
(*   - agent discovery                       (src/orchestrator/discovery)  *)
(* Time is the value of Date.now() in milliseconds.                        *)
(***************************************************************************)
EXTENDS Integers, Sequences, FiniteSets, TLC

VARIABLES
    now,        \* Date.now()
    circuits,   \* CircuitBreaker.circuits : endpoint -> CircuitStatus (or NoCircuit)
    cbLast,     \* history: the last call made on the breaker and what it returned
    openedAt,   \* history: per endpoint, when the circuit last went to "open"
    consec,     \* history: per endpoint, failures recorded since the last success
    agents,     \* the discovered agents of the run (fixed during a behaviour)
    script,     \* per (agent, skill) pair: how the agent answers ("any": free)
    inv,        \* per (agent, skill) pair: the state of its invokeAgent call
    run,        \* the fan-out: runs started so far and whether one is in progress
    results,    \* what the last completed fan-out returned
    order,      \* history: the pairs of the current run in order of completion
    outputs,    \* history: the merged output of every completed orchestrator run
    authEnabled,\* tool server: AUTH_ENABLED
    toolLog,    \* tool server: history of the /call requests and their outcome
    rpcLog,     \* agent server: history of the /rpc requests and their outcome
    disc        \* discovery: the discoverAgents call in progress, or its result

cbVars == <<now, circuits, cbLast, openedAt, consec>>
invVars == <<agents, script, inv, run, results, order, outputs>>
toolVars == <<authEnabled, toolLog>>
peerVars == <<rpcLog, disc>>
vars == <<now, circuits, cbLast, openedAt, consec,
          agents, script, inv, run, results, order, outputs, authEnabled, toolLog,
          rpcLog, disc>>

(***************************************************************************)
(* Bounds of the model                                                     *)
(***************************************************************************)
MaxTicks == 2        \* how many times the clock advances
MaxFailures == 5     \* cap of the failure counter in the breaker-only specification

(***************************************************************************)
(* Circuit breaker                                                         *)
(***************************************************************************)
failureThreshold == 3
cooldownMs == 30000

\* the clock advances in steps of half a cooldown
TickMs == cooldownMs \div 2

Endpoints == {"epA", "epB"}

NoCircuit == [state |-> "none"]
Never == 0 - 1

FreshCircuit == [state |-> "closed", failures |-> 0, lastFailure |-> 0, lastSuccess |-> 0]

\* getCircuit: the status of the endpoint, created on first use
GetCircuit(c, e) == IF c[e] = NoCircuit THEN FreshCircuit ELSE c[e]

\* isAvailable: the returned boolean
IsAvailableResult(c, e, t) ==
    LET status == GetCircuit(c, e) IN
    CASE status.state = "closed" -> TRUE
      [] status.state = "open" -> (t - status.lastFailure >= cooldownMs)
      [] status.state = "half_open" -> TRUE

\* isAvailable: the table after the call
IsAvailableEffect(c, e, t) ==
    LET status == GetCircuit(c, e) IN
    IF status.state = "open" /\ t - status.lastFailure >= cooldownMs
    THEN [c EXCEPT ![e] = [status EXCEPT !.state = "half_open"]]
    ELSE [c EXCEPT ![e] = status]

RecordSuccessEffect_KeepsCount(c, e, t) ==
    LET status == GetCircuit(c, e) IN
    [c EXCEPT ![e] = [status EXCEPT !.lastSuccess = t, !.state = "closed"]]

\* recordSuccess: the table after the call
RecordSuccessEffect(c, e, t) ==
    LET status == GetCircuit(c, e) IN
    [c EXCEPT ![e] = [status EXCEPT !.failures = 0, !.lastSuccess = t, !.state = "closed"]]

RecordFailureEffect_NoTrip(c, e, t) ==
    LET status == GetCircuit(c, e)
        n == status.failures + 1 IN
    [c EXCEPT ![e] = [status EXCEPT
        !.failures = n,
        !.lastFailure = t,
        !.state = IF status.state = "half_open" THEN "open"
                  ELSE IF n > failureThreshold THEN "open"
                  ELSE status.state]]

RecordFailureEffect_KeepHalfOpen(c, e, t) ==
    LET status == GetCircuit(c, e)
        n == status.failures + 1 IN
    [c EXCEPT ![e] = [status EXCEPT
        !.failures = n,
        !.lastFailure = t,
        !.state = IF n >= failureThreshold /\ status.state # "half_open" THEN "open"
                  ELSE status.state]]

\* recordFailure: the table after the call
RecordFailureEffect(c, e, t) ==
    LET status == GetCircuit(c, e)
        n == status.failures + 1 IN
    [c EXCEPT ![e] = [status EXCEPT
        !.failures = n,
        !.lastFailure = t,
        !.state = IF status.state = "half_open" THEN "open"
                  ELSE IF n >= failureThreshold THEN "open"
                  ELSE status.state]]

ResetEffect_ClearsAll(c, e) == [x \in DOMAIN c |-> NoCircuit]

\* reset: the endpoint's entry is deleted
ResetEffect(c, e) == [c EXCEPT ![e] = NoCircuit]

\* getState
GetState(c, e) == GetCircuit(c, e).state

\* getFailureCount
GetFailureCount(c, e) == GetCircuit(c, e).failures

(***************************************************************************)
(* History of the breaker: what an observer of the calls can tell          *)
(***************************************************************************)
\* when the endpoint's circuit last entered "open"
OpenedAtAfter(oa, e, c, c2, t) ==
    IF GetState(c2, e) = "open" /\ GetState(c, e) # "open"
    THEN [oa EXCEPT ![e] = t]
    ELSE oa

(***************************************************************************)
(* Invoker: constants, messages, results                                   *)
(***************************************************************************)
AGENT_TIMEOUT_MS == 5000
MAX_RETRIES == 1
MAX_NEGOTIATION_ROUNDS == 2
TOOL_TIMEOUT_MS == 3000

\* the messages of the exceptions and tool errors the model draws from
MsgAborted == "The operation was aborted."      \* fetch aborted by controller.abort()
MsgTimeout == "Connection timeout"
MsgRefused == "Unable to connect"
MsgOther == "fetch failed"
MsgTypeError == "undefined is not an object"    \* property access on null/undefined
MsgSyntax == "JSON Parse error"                 \* response.json() on an unparsable body
MsgHttp500 == "HTTP 500"
MsgToolFailed == "tool exited with status 1"

RetryKeywords == {"timeout", "aborted", "econnrefused", "econnreset", "network",
                  "unable to connect", "connection refused"}

\* the retry keywords that occur in message.toLowerCase()
LowerWords(m) ==
    CASE m = MsgAborted -> {"aborted"}
      [] m = MsgTimeout -> {"timeout"}
      [] m = MsgRefused -> {"unable to connect"}
      [] OTHER -> {}

\* message.includes("aborted")  (case-sensitive)
IncludesAborted(m) == m = MsgAborted

\* `${response.status}` after "HTTP "
HttpStatusText(status) ==
    CASE status = 500 -> MsgHttp500
      [] status = 404 -> "HTTP 404"
      [] status = 401 -> "HTTP 401"
      [] status = 403 -> "HTTP 403"
      [] OTHER -> "HTTP 400"

\* an Error with its message
Exc(m) == [isError |-> TRUE, message |-> m]

IsRetryableError(error) ==
    error.isError /\ (LowerWords(error.message) \cap RetryKeywords) # {}

IsRetryableToolError(stderr) == (LowerWords(stderr) \cap RetryKeywords) # {}

\* InvokeResult.error
NoError == [kind |-> "undefined"]
ErrText(m) == [kind |-> "text", text |-> m]
ErrCircuitOpen(name) == [kind |-> "Circuit breaker open for <agentName>", agentName |-> name]
ErrTimeout == [kind |-> "Timeout after <AGENT_TIMEOUT_MS>ms", ms |-> AGENT_TIMEOUT_MS]
ErrToolFailed(type, tool, stderr) ==
    [kind |-> "Agent requested <request_type> via <tool> but tool call failed<detail>",
     request_type |-> type, tool |-> tool, detail |-> stderr]
ErrNoTool(type) ==
    [kind |-> "Agent requested <request_type> but tool call failed", request_type |-> type]
ErrMaxRounds ==
    [kind |-> "Max negotiation rounds (<N>) exceeded", n |-> MAX_NEGOTIATION_ROUNDS]

NoResult == [agentName |-> "", skillId |-> "", hasFindings |-> FALSE, findings |-> <<>>,
             error |-> NoError, retried |-> "undefined"]

\* an InvokeResult; hasFindings is false when the findings field is undefined
MkResult(p, hasF, findings, error, retried) ==
    [agentName |-> p.agentName, skillId |-> p.skillId, hasFindings |-> hasF,
     findings |-> findings, error |-> error, retried |-> retried]

\* agents.flatMap(agent => agent.card.skills.map(skill => ...)): the pairs in order
RECURSIVE PairsOf(_)
PairsOf(ags) ==
    IF ags = <<>> THEN <<>>
    ELSE [k \in 1..Len(Head(ags).skills) |->
             [agentName |-> Head(ags).name, endpoint |-> Head(ags).endpoint,
              skillId |-> Head(ags).skills[k]]]
         \o PairsOf(Tail(ags))

Pairs == PairsOf(agents)
NPairs == Len(Pairs)

(***************************************************************************)
(* Findings and the merger                                                 *)
(***************************************************************************)
Severities == {"low", "medium", "high", "critical"}
SEVERITY_RANK == [critical |-> 4, high |-> 3, medium |-> 2, low |-> 1]

NoFile == "<undefined>"
NoLine == -1

\* the findings each skill of the model's agents reports
SkillFindings(skillId) ==
    CASE skillId = "review.security" ->
           << [severity |-> "critical", title |-> "Hardcoded password",
               evidence |-> "PASSWORD='secret'", recommendation |-> "Use env",
               file |-> "src/a.ts", line |-> 3],
              [severity |-> "high", title |-> "API Key",
               evidence |-> "API_KEY='x'", recommendation |-> "Use env",
               file |-> "src/a.ts", line |-> 2] >>
      [] skillId = "review.style" ->
           << [severity |-> "low", title |-> "Line too long",
               evidence |-> "...", recommendation |-> "Wrap",
               file |-> NoFile, line |-> NoLine] >>
      [] skillId = "review.tests" ->
           << [severity |-> "medium", title |-> "Missing tests",
               evidence |-> "src/a.ts", recommendation |-> "Add tests",
               file |-> "src/a.ts", line |-> NoLine] >>
      [] skillId = "review.secrets" ->
           << [severity |-> "high", title |-> "Hardcoded password",
               evidence |-> "PASSWORD", recommendation |-> "Rotate",
               file |-> "src/a.ts", line |-> 3] >>
      [] OTHER -> <<>>

\* the rank of a string of the model in localeCompare order
\* "Caf<U+00E9>" and "Cafe<U+0301>" stand for the precomposed and the decomposed
\* spelling of the same word: canonically equivalent strings, for which
\* localeCompare returns 0 although they are different strings
StrRank(s) ==
    CASE s = "" -> 0
      [] s = "a" -> 1
      [] s = "a|b" -> 2
      [] s = "API Key" -> 3
      [] s = "B" -> 4
      [] s = "b|c" -> 5
      [] s = "c" -> 6
      [] s = "Caf<U+00E9>" -> 7
      [] s = "Cafe<U+0301>" -> 7
      [] s = "Hardcoded password" -> 8
      [] s = "Line too long" -> 9
      [] s = "Missing tests" -> 10
      [] s = "src/a.ts" -> 11
      [] s = "src/b.ts" -> 12
      [] OTHER -> 13

\* a.localeCompare(b)
LocaleCompare(a, b) == StrRank(a) - StrRank(b)

FileOr(f) == IF f.file = NoFile THEN "" ELSE f.file      \* finding.file || ""
LineOr0(f) == IF f.line = NoLine THEN 0 ELSE f.line      \* finding.line || 0
\* String(n) for the line numbers of the model
NumText(n) ==
    CASE n = 1 -> "1" [] n = 2 -> "2" [] n = 3 -> "3" [] n = 4 -> "4" [] OTHER -> "5"

\* `${finding.line || ""}`
LineOrEmpty(f) == IF f.line = NoLine \/ f.line = 0 THEN "" ELSE NumText(f.line)

\* a string as the sequence of its pieces, "|" being a piece of its own, so that
\* concatenating pieces is concatenating strings
Chars(s) ==
    CASE s = "" -> <<>>
      [] s = "a|b" -> <<"a", "|", "b">>
      [] s = "b|c" -> <<"b", "|", "c">>
      [] OTHER -> <<s>>

\* `${finding.title}|${finding.file || ""}|${finding.line || ""}`
findingSignature(f) ==
    Chars(f.title) \o <<"|">> \o Chars(FileOr(f)) \o <<"|">> \o Chars(LineOrEmpty(f))

compareFindingsForSort_NoLine(a, b) ==
    LET severityDiff == SEVERITY_RANK[b.severity] - SEVERITY_RANK[a.severity]
        fileDiff == LocaleCompare(FileOr(a), FileOr(b))
    IN  IF severityDiff # 0 THEN severityDiff
        ELSE IF fileDiff # 0 THEN fileDiff
        ELSE LocaleCompare(a.title, b.title)

compareFindingsForSort(a, b) ==
    LET severityDiff == SEVERITY_RANK[b.severity] - SEVERITY_RANK[a.severity]
        fileDiff == LocaleCompare(FileOr(a), FileOr(b))
        lineDiff == LineOr0(a) - LineOr0(b)
    IN  IF severityDiff # 0 THEN severityDiff
        ELSE IF fileDiff # 0 THEN fileDiff
        ELSE IF lineDiff # 0 THEN lineDiff
        ELSE LocaleCompare(a.title, b.title)

\* results.flatMap(r => r.findings)
RECURSIVE Flatten(_)
Flatten(rs) == IF rs = <<>> THEN <<>> ELSE Head(rs).findings \o Flatten(Tail(rs))

\* keep the first occurrence of every signature
RECURSIVE Dedupe(_, _)
Dedupe(fs, seen) ==
    IF fs = <<>> THEN <<>>
    ELSE IF findingSignature(Head(fs)) \in seen THEN Dedupe(Tail(fs), seen)
    ELSE <<Head(fs)>> \o Dedupe(Tail(fs), seen \cup {findingSignature(Head(fs))})

\* insert x after the elements that do not compare greater: a stable sort
RECURSIVE InsertSorted(_, _)
InsertSorted(x, sorted) ==
    IF sorted = <<>> THEN <<x>>
    ELSE IF compareFindingsForSort(Head(sorted), x) <= 0
         THEN <<Head(sorted)>> \o InsertSorted(x, Tail(sorted))
         ELSE <<x>> \o sorted

RECURSIVE SortFindings(_)
SortFindings(fs) ==
    IF fs = <<>> THEN <<>>
    ELSE InsertSorted(fs[Len(fs)], SortFindings(SubSeq(fs, 1, Len(fs) - 1)))

CountSeverity(fs, sev) == Cardinality({k \in 1..Len(fs) : fs[k].severity = sev})

mergeFindings_CountsAll(rs) ==
    LET uniqueFindings == SortFindings(Dedupe(Flatten(rs), {}))
    IN  [findings |-> uniqueFindings,
         toolRuns |-> <<>>,
         bySeverity |-> [sev \in Severities |-> CountSeverity(Flatten(rs), sev)]]

mergeFindings(rs) ==
    LET uniqueFindings == SortFindings(Dedupe(Flatten(rs), {}))
    IN  [findings |-> uniqueFindings,
         toolRuns |-> <<>>,
         bySeverity |-> [sev \in Severities |-> CountSeverity(uniqueFindings, sev)]]

(***************************************************************************)
(* Invoker: one invokeAgent call                                           *)
(* A call is suspended at pc: "fetch" (awaiting the agent's response),     *)
(* "body" (awaiting response.json()), "toolfetch" and "toolbody" (the same *)
(* inside callMcpTool); "done" once it has returned its InvokeResult and   *)
(* "thrown" if an exception left it.  The operators below are the code     *)
(* that runs between two suspensions; they take and return the breaker     *)
(* (with its history) b and the call's state s.                            *)
(***************************************************************************)
NoNeed == [request_type |-> "", tool |-> ""]
NoAdmit == [at |-> Never, openedAt |-> Never]
\* the event that last resumed the call: its kind, the message it carried, whether
\* it was a failure, and the retries already used in the round when it happened
NoEvent == [kind |-> "none", msg |-> "", err |-> FALSE, attempt |-> 0]
Event(s, kind, msg, err) == [kind |-> kind, msg |-> msg, err |-> err, attempt |-> s.attempt]

IdleInv ==
    [pc |-> "idle", round |-> 0, attempt |-> 0, toolAttempt |-> 0, retried |-> FALSE,
     ctx |-> {}, need |-> NoNeed, timer |-> "none", result |-> NoResult,
     \* history
     probe |-> FALSE, admit |-> NoAdmit, nReq |-> 0, nRecS |-> 0, nRecF |-> 0,
     onlyNmi |-> TRUE,
     \* sent: additional_context of the last request; gathered: the successful tool
     \* calls so far; nToolReq, nNeed: tool requests sent, tool negotiations begun;
     \* nLat: calls of metricsCollector.recordAgentLatency
     ev |-> NoEvent, sent |-> {}, gathered |-> <<>>, nToolReq |-> 0, nNeed |-> 0,
     nLat |-> 0,
     \* nAgentDone, nToolDone: attemptInvoke and callMcpTool calls that have settled;
     \* reply: the kind of the agent's last reply; toolRounds: the rounds in which
     \* callMcpTool was called
     nAgentDone |-> 0, nToolDone |-> 0, reply |-> "none", toolRounds |-> {}]

Breaker == [c |-> circuits, oa |-> openedAt, cs |-> consec]

BIsAvailable(b, e, t) == [b EXCEPT !.c = IsAvailableEffect(b.c, e, t)]

BRecordSuccess(b, e, t) ==
    [b EXCEPT !.c = RecordSuccessEffect(b.c, e, t), !.cs = [b.cs EXCEPT ![e] = 0]]

BRecordFailure(b, e, t) ==
    [c  |-> RecordFailureEffect(b.c, e, t),
     oa |-> OpenedAtAfter(b.oa, e, b.c, RecordFailureEffect(b.c, e, t), t),
     cs |-> [b.cs EXCEPT ![e] = @ + 1]]

\* circuitBreaker.recordSuccess(endpoint) / recordFailure(endpoint) from invokeAgent
RecSuccess(b, s, p, t) ==
    [b |-> BRecordSuccess(b, p.endpoint, t), s |-> [s EXCEPT !.nRecS = @ + 1]]
RecFailure(b, s, p, t) ==
    [b |-> BRecordFailure(b, p.endpoint, t), s |-> [s EXCEPT !.nRecF = @ + 1]]

\* metricsCollector?.recordAgentLatency(agent.card.name, durationMs)
RecordAgentLatency(bs) == [b |-> bs.b, s |-> [bs.s EXCEPT !.nLat = @ + 1]]

\* return <result>
Return(bs, res) == [b |-> bs.b, s |-> [bs.s EXCEPT !.pc = "done", !.result = res]]

\* an exception leaves invokeAgent: its promise rejects
Throw(b, s) == [b |-> b, s |-> [s EXCEPT !.pc = "thrown"]]

\* attemptInvoke up to `await fetch(...)`: the timer is armed, the request is sent
AttemptInvoke(s) ==
    [s EXCEPT !.pc = "fetch", !.timer = "agent", !.nReq = @ + 1, !.sent = s.ctx]

CallMcpTool_NotInLastRound(s) ==
    IF s.round + 1 < MAX_NEGOTIATION_ROUNDS
    THEN [s EXCEPT !.pc = "toolfetch", !.timer = "tool", !.nToolReq = @ + 1,
                   !.toolRounds = @ \cup {s.round}]
    ELSE [s EXCEPT !.pc = "done", !.nRecF = @ + 1,
                   !.result = [NoResult EXCEPT !.hasFindings = TRUE, !.error = ErrMaxRounds]]

CallMcpTool_NotAwaited(s) ==
    [AttemptInvoke([s EXCEPT !.round = @ + 1, !.attempt = 0])
        EXCEPT !.nToolReq = @ + 1, !.toolRounds = @ \cup {s.round}]

\* callMcpTool up to `await fetch(...)`
CallMcpTool(s) ==
    [s EXCEPT !.pc = "toolfetch", !.timer = "tool", !.nToolReq = @ + 1,
              !.toolRounds = @ \cup {s.round}]

InvokeCatch_Rethrow(b, s, p, error, t) ==
    IF s.attempt < MAX_RETRIES /\ IsRetryableError(error)
    THEN [b |-> b, s |-> AttemptInvoke([s EXCEPT !.retried = TRUE, !.attempt = @ + 1])]
    ELSE Throw(b, s)

InvokeCatch_RetryAgain(b, s, p, error, t) ==
    IF s.attempt <= MAX_RETRIES /\ IsRetryableError(error)
    THEN [b |-> b, s |-> AttemptInvoke([s EXCEPT !.retried = TRUE, !.attempt = @ + 1])]
    ELSE Return(RecordAgentLatency(RecFailure(b, s, p, t)),
                MkResult(p, TRUE, <<>>,
                         IF IncludesAborted(error.message) THEN ErrTimeout
                         ELSE ErrText(error.message),
                         s.retried))

\* the catch block of invokeAgent's retry loop
InvokeCatch(b, s, p, error, t) ==
    IF s.attempt < MAX_RETRIES /\ IsRetryableError(error)
    THEN [b |-> b, s |-> AttemptInvoke([s EXCEPT !.retried = TRUE, !.attempt = @ + 1])]
    ELSE LET errorMessage == IF error.isError THEN error.message ELSE "Unknown error"
         IN  Return(RecordAgentLatency(RecFailure(b, s, p, t)),
                    MkResult(p, TRUE, <<>>,
                             IF IncludesAborted(errorMessage) THEN ErrTimeout
                             ELSE ErrText(errorMessage),
                             s.retried))

AttemptError_KeepFindings(b, s, p, message, t) ==
    Return(RecordAgentLatency(RecFailure(b, s, p, t)),
           MkResult(p, TRUE, SkillFindings(p.skillId), ErrText(message), s.retried))

\* attemptResult.error is set: a response-level error
AttemptError(b, s, p, message, t) ==
    Return(RecordAgentLatency(RecFailure(b, s, p, t)),
           MkResult(p, TRUE, <<>>, ErrText(message), s.retried))

CtxPut_Drop(ctx, key, value) == ctx

\* { ...additionalContext, [request_type]: stdout }
CtxPut(ctx, key, value) ==
    {kv \in ctx : kv.key # key} \cup {[key |-> key, value |-> value]}

\* isNeedMoreInfo: the response carries need_more_info: true
isNeedMoreInfo(response) ==
    response.kind \in {"nmi_tool", "nmi_notool", "nmi_malformed"}

\* after the round loop: all negotiation rounds exhausted
MaxRoundsExit(b, s, p, t) ==
    Return(RecordAgentLatency(RecFailure(b, s, p, t)),
           MkResult(p, TRUE, <<>>, ErrMaxRounds, s.retried))

NextRound_OneMore(b, s, p, t) ==
    IF s.round + 1 < MAX_NEGOTIATION_ROUNDS + 1
    THEN [b |-> b, s |-> AttemptInvoke([s EXCEPT !.round = @ + 1, !.attempt = 0])]
    ELSE MaxRoundsExit(b, s, p, t)

\* `break` out of the retry loop: round++ and the loop test of the round loop
NextRound(b, s, p, t) ==
    IF s.round + 1 < MAX_NEGOTIATION_ROUNDS
    THEN [b |-> b, s |-> AttemptInvoke([s EXCEPT !.round = @ + 1, !.attempt = 0])]
    ELSE MaxRoundsExit(b, s, p, t)

ToolReturn_NoFlag(b, s, p, toolResult, t) ==
    IF toolResult.ok
    THEN NextRound(b, [s EXCEPT !.ctx = CtxPut(s.ctx, s.need.request_type, toolResult.stdout),
                                !.gathered = Append(@, [key |-> s.need.request_type,
                                                        value |-> toolResult.stdout])],
                   p, t)
    ELSE IF ~IsRetryableToolError(toolResult.stderr) \/ s.toolAttempt = MAX_RETRIES
    THEN Return(RecordAgentLatency(RecSuccess(b, [s EXCEPT !.onlyNmi = FALSE], p, t)),
                MkResult(p, TRUE, <<>>,
                         ErrToolFailed(s.need.request_type, s.need.tool, toolResult.stderr),
                         s.retried))
    ELSE [b |-> b, s |-> CallMcpTool([s EXCEPT !.toolAttempt = @ + 1])]

ToolReturn_RecordFailure(b, s, p, toolResult, t) ==
    IF toolResult.ok
    THEN NextRound(b, [s EXCEPT !.ctx = CtxPut(s.ctx, s.need.request_type, toolResult.stdout),
                                !.gathered = Append(@, [key |-> s.need.request_type,
                                                        value |-> toolResult.stdout])],
                   p, t)
    ELSE IF ~IsRetryableToolError(toolResult.stderr) \/ s.toolAttempt = MAX_RETRIES
    THEN Return(RecordAgentLatency(RecFailure(b, [s EXCEPT !.onlyNmi = FALSE], p, t)),
                MkResult(p, TRUE, <<>>,
                         ErrToolFailed(s.need.request_type, s.need.tool, toolResult.stderr),
                         s.retried))
    ELSE [b |-> b,
          s |-> CallMcpTool([s EXCEPT !.retried = TRUE, !.toolAttempt = @ + 1])]

ToolReturn_RetryTwice(b, s, p, toolResult, t) ==
    IF toolResult.ok
    THEN NextRound(b, [s EXCEPT !.ctx = CtxPut(s.ctx, s.need.request_type, toolResult.stdout),
                                !.gathered = Append(@, [key |-> s.need.request_type,
                                                        value |-> toolResult.stdout])],
                   p, t)
    ELSE IF ~IsRetryableToolError(toolResult.stderr) \/ s.toolAttempt = MAX_RETRIES + 1
    THEN Return(RecordAgentLatency(RecSuccess(b, [s EXCEPT !.onlyNmi = FALSE], p, t)),
                MkResult(p, TRUE, <<>>,
                         ErrToolFailed(s.need.request_type, s.need.tool, toolResult.stderr),
                         s.retried))
    ELSE [b |-> b,
          s |-> CallMcpTool([s EXCEPT !.retried = TRUE, !.toolAttempt = @ + 1])]

\* the tool retry loop after callMcpTool returned toolResult
ToolReturn(b, s, p, toolResult, t) ==
    IF toolResult.ok
    THEN NextRound(b, [s EXCEPT !.ctx = CtxPut(s.ctx, s.need.request_type, toolResult.stdout),
                                !.gathered = Append(@, [key |-> s.need.request_type,
                                                        value |-> toolResult.stdout])],
                   p, t)
    ELSE IF ~IsRetryableToolError(toolResult.stderr) \/ s.toolAttempt = MAX_RETRIES
    THEN Return(RecordAgentLatency(RecSuccess(b, [s EXCEPT !.onlyNmi = FALSE], p, t)),
                MkResult(p, TRUE, <<>>,
                         ErrToolFailed(s.need.request_type, s.need.tool,
                                       IF toolResult.stderr # "" THEN toolResult.stderr ELSE ""),
                         s.retried))
    ELSE [b |-> b,
          s |-> CallMcpTool([s EXCEPT !.retried = TRUE, !.toolAttempt = @ + 1])]

HandleAgentBody_NoToolGoesOn(b, s, p, body, t) ==
    IF body.kind \in {"non_object", "error_null"}
    THEN InvokeCatch(b, [s EXCEPT !.onlyNmi = FALSE], p, Exc(MsgTypeError), t)
    ELSE IF body.kind = "rpc_error" /\ body.message # ""
    THEN AttemptError(b, [s EXCEPT !.onlyNmi = FALSE], p, body.message, t)
    ELSE
      LET response == IF body.kind = "rpc_error" THEN [kind |-> "null"] ELSE body.result IN
      IF isNeedMoreInfo(response)
      THEN IF response.kind = "nmi_malformed"
           THEN InvokeCatch(b, [s EXCEPT !.onlyNmi = FALSE], p, Exc(MsgTypeError), t)
           ELSE IF response.kind = "nmi_tool"
           THEN [b |-> b,
                 s |-> CallMcpTool([s EXCEPT !.toolAttempt = 0, !.nNeed = @ + 1,
                                       !.need = [request_type |-> response.request_type,
                                                 tool |-> response.tool]])]
           ELSE NextRound(b, s, p, t)
      ELSE LET r == RecordAgentLatency(RecSuccess(b, [s EXCEPT !.onlyNmi = FALSE], p, t)) IN
           IF response.kind = "null"
           THEN InvokeCatch(r.b, r.s, p, Exc(MsgTypeError), t)
           ELSE IF response.kind = "garbage"
           THEN Return(r, MkResult(p, FALSE, <<>>, NoError, s.retried))
           ELSE Return(r, MkResult(p, TRUE, response.findings, NoError, s.retried))

\* invokeAgent from the parsed JSON-RPC response to the next suspension or return.
\* body.kind: "non_object" (null, a number), "error_null" ({error: null}),
\* "rpc_error" ({error: {message}}), "result" ({result: body.result}) with
\* result.kind: "review", "nmi_tool", "nmi_notool", "nmi_malformed" (no
\* request_params), "garbage" (an object without findings), "null".
HandleAgentBody(b, s, p, body, t) ==
    IF body.kind \in {"non_object", "error_null"}
    THEN InvokeCatch(b, [s EXCEPT !.onlyNmi = FALSE], p, Exc(MsgTypeError), t)
    ELSE IF body.kind = "rpc_error" /\ body.message # ""
    THEN AttemptError(b, [s EXCEPT !.onlyNmi = FALSE], p, body.message, t)
    ELSE
      LET response == IF body.kind = "rpc_error" THEN [kind |-> "null"] ELSE body.result IN
      IF isNeedMoreInfo(response)
      THEN IF response.kind = "nmi_malformed"
           THEN InvokeCatch(b, [s EXCEPT !.onlyNmi = FALSE], p, Exc(MsgTypeError), t)
           ELSE IF response.kind = "nmi_tool"
           THEN [b |-> b,
                 s |-> CallMcpTool([s EXCEPT !.toolAttempt = 0, !.nNeed = @ + 1,
                                       !.need = [request_type |-> response.request_type,
                                                 tool |-> response.tool]])]
           ELSE Return(RecordAgentLatency(RecSuccess(b, [s EXCEPT !.onlyNmi = FALSE], p, t)),
                       MkResult(p, TRUE, <<>>, ErrNoTool(response.request_type), s.retried))
      ELSE LET r == RecordAgentLatency(RecSuccess(b, [s EXCEPT !.onlyNmi = FALSE], p, t)) IN
           IF response.kind = "null"
           THEN InvokeCatch(r.b, r.s, p, Exc(MsgTypeError), t)    \* extractFindings throws
           ELSE IF response.kind = "garbage"
           THEN Return(r, MkResult(p, FALSE, <<>>, NoError, s.retried))
           ELSE Return(r, MkResult(p, TRUE, response.findings, NoError, s.retried))

InvokeAgentStart_CountsFailure(b, p, t) ==
    IF ~IsAvailableResult(b.c, p.endpoint, t)
    THEN [b |-> BRecordFailure(b, p.endpoint, t),
          s |-> [IdleInv EXCEPT !.pc = "done",
                    !.result = MkResult(p, TRUE, <<>>, ErrCircuitOpen(p.agentName),
                                        "undefined")]]
    ELSE [b |-> BIsAvailable(b, p.endpoint, t),
          s |-> AttemptInvoke([IdleInv EXCEPT
                    !.probe = (GetState(IsAvailableEffect(b.c, p.endpoint, t), p.endpoint)
                               = "half_open"),
                    !.admit = [at |-> t, openedAt |-> b.oa[p.endpoint]]])]

\* invokeAgent from its entry to the first suspension
InvokeAgentStart(b, p, t) ==
    IF ~IsAvailableResult(b.c, p.endpoint, t)
    THEN [b |-> BIsAvailable(b, p.endpoint, t),
          s |-> [IdleInv EXCEPT !.pc = "done",
                    !.result = MkResult(p, TRUE, <<>>, ErrCircuitOpen(p.agentName),
                                        "undefined")]]
    ELSE [b |-> BIsAvailable(b, p.endpoint, t),
          s |-> AttemptInvoke([IdleInv EXCEPT
                    !.probe = (GetState(IsAvailableEffect(b.c, p.endpoint, t), p.endpoint)
                               = "half_open"),
                    !.admit = [at |-> t, openedAt |-> b.oa[p.endpoint]]])]

\* the synchronous part of the fan-out: invokeAgent is entered for every pair in order
RECURSIVE StartAll(_, _, _, _)
StartAll(k, b, invs, t) ==
    IF k > Len(invs) THEN [b |-> b, invs |-> invs]
    ELSE LET r == InvokeAgentStart(b, Pairs[k], t)
         IN  StartAll(k + 1, r.b, [invs EXCEPT ![k] = r.s], t)

(***************************************************************************)
(* Initial states                                                          *)
(***************************************************************************)
MaxRuns == 3         \* fan-outs started in one behaviour of Spec
MaxReviews == 2      \* review runs started in one behaviour of SpecRuns

\* one agent advertising one skill
AgentsMain ==
    << [name |-> "security-agent", endpoint |-> "epA", skills |-> <<"review.security">>] >>

BreakerInit ==
    /\ now = 0
    /\ circuits = [e \in Endpoints |-> NoCircuit]
    /\ cbLast = [op |-> "none", ep |-> "epA", ret |-> TRUE, before |-> "closed", at |-> 0]
    /\ openedAt = [e \in Endpoints |-> Never]
    /\ consec = [e \in Endpoints |-> 0]

InvokerInit(ags, scr, maxRuns) ==
    /\ agents = ags
    /\ script = scr
    /\ inv = [k \in 1..Len(PairsOf(ags)) |-> IdleInv]
    /\ run = [no |-> 0, phase |-> "idle", max |-> maxRuns]
    /\ results = <<>>
    /\ order = <<>>
    /\ outputs = <<>>

\* discoverAgents has not been called
NoDiscovery ==
    [phase |-> "idle", pc |-> <<>>, cards |-> <<>>, order |-> <<>>, agents |-> <<>>,
     posted |-> {}]

\* no request has reached an agent server, no discovery has started
PeerInit ==
    /\ rpcLog = <<>>
    /\ disc = NoDiscovery

ToolInit ==
    /\ authEnabled = TRUE
    /\ toolLog = <<>>
    /\ PeerInit

Tick ==
    /\ now \div TickMs < MaxTicks
    /\ now' = now + TickMs
    /\ UNCHANGED <<circuits, cbLast, openedAt, consec, invVars, toolVars, peerVars>>

CallIsAvailable(e) ==
    /\ circuits' = IsAvailableEffect(circuits, e, now)
    /\ cbLast' = [op |-> "isAvailable", ep |-> e,
                  ret |-> IsAvailableResult(circuits, e, now),
                  before |-> GetState(circuits, e), at |-> now]
    /\ UNCHANGED <<now, openedAt, consec>>
    /\ UNCHANGED <<invVars, toolVars, peerVars>>

CallRecordSuccess(e) ==
    /\ circuits' = RecordSuccessEffect(circuits, e, now)
    /\ cbLast' = [op |-> "recordSuccess", ep |-> e, ret |-> TRUE,
                  before |-> GetState(circuits, e), at |-> now]
    /\ consec' = [consec EXCEPT ![e] = 0]
    /\ UNCHANGED <<now, openedAt>>
    /\ UNCHANGED <<invVars, toolVars, peerVars>>

CallRecordFailure(e) ==
    /\ GetFailureCount(circuits, e) < MaxFailures
    /\ circuits' = RecordFailureEffect(circuits, e, now)
    /\ cbLast' = [op |-> "recordFailure", ep |-> e, ret |-> TRUE,
                  before |-> GetState(circuits, e), at |-> now]
    /\ consec' = [consec EXCEPT ![e] = @ + 1]
    /\ openedAt' = OpenedAtAfter(openedAt, e, circuits, circuits', now)
    /\ UNCHANGED <<now, invVars, toolVars, peerVars>>

CallReset(e) ==
    /\ circuits[e] # NoCircuit
    /\ circuits' = ResetEffect(circuits, e)
    /\ cbLast' = [op |-> "reset", ep |-> e, ret |-> TRUE,
                  before |-> GetState(circuits, e), at |-> now]
    /\ consec' = [consec EXCEPT ![e] = 0]
    /\ openedAt' = [openedAt EXCEPT ![e] = Never]
    /\ UNCHANGED <<now, invVars, toolVars, peerVars>>


(***************************************************************************)
(* Invoker: the fan-out and the events that resume a suspended call        *)
(***************************************************************************)
\* what the agents and the tool service may send
AgentStatuses == {200, 500}
FetchErrors == {MsgRefused, MsgTimeout, MsgOther}
BodyErrors == {MsgSyntax, MsgRefused}
RequestTypes == {"test_output"}
ToolNames == {"lint"}
ToolStdouts == {"Linting complete."}

AgentBodies(p) ==
    {[kind |-> "non_object"], [kind |-> "error_null"],
     [kind |-> "rpc_error", message |-> "Invalid params"],
     [kind |-> "rpc_error", message |-> ""]}
    \cup {[kind |-> "result", result |-> r] : r \in
            {[kind |-> "review", findings |-> SkillFindings(p.skillId)],
             [kind |-> "nmi_malformed"], [kind |-> "garbage"], [kind |-> "null"]}
            \cup {[kind |-> "nmi_tool", request_type |-> ty, tool |-> tl] :
                     ty \in RequestTypes, tl \in ToolNames}
            \cup {[kind |-> "nmi_notool", request_type |-> ty] : ty \in RequestTypes}}

ToolStatuses == {200, 500}
ToolBodies ==
    {[kind |-> "malformed"]}
    \cup {[kind |-> "response", ok |-> TRUE, stdout |-> o, stderr |-> ""] : o \in ToolStdouts}
    \cup {[kind |-> "response", ok |-> FALSE, stdout |-> "", stderr |-> e] :
             e \in {MsgToolFailed, MsgTimeout, ""}}

\* how a scripted agent answers: the script names the one answer it gives
ScriptAllowsStatus(k, status) ==
    script[k] = "any" \/ (script[k] = "http_error" <=> status # 200)
ScriptAllowsBody(k, body) ==
    \/ script[k] = "any"
    \/ script[k] = "review" /\ body.kind = "result" /\ body.result.kind = "review"
    \/ script[k] = "rpc_error" /\ body.kind = "rpc_error" /\ body.message # ""

Commit(i, r) ==
    /\ inv' = [inv EXCEPT ![i] = r.s]
    /\ circuits' = r.b.c
    /\ openedAt' = r.b.oa
    /\ consec' = r.b.cs
    /\ order' = IF r.s.pc \in {"done", "thrown"} THEN Append(order, i) ELSE order
    /\ UNCHANGED <<now, cbLast, agents, script, run, results, outputs, toolVars, peerVars>>

\* invokeAllAgents / invokeAllAgentsWithMetrics: every invokeAgent call is entered
StartRun ==
    /\ run.phase = "idle"
    /\ run.no < run.max
    /\ LET r == StartAll(1, Breaker, [k \in 1..NPairs |-> IdleInv], now) IN
        /\ inv' = r.invs
        /\ circuits' = r.b.c
        /\ openedAt' = r.b.oa
        /\ consec' = r.b.cs
        /\ order' = SelectSeq([k \in 1..NPairs |-> k], LAMBDA k : r.invs[k].pc = "done")
    /\ run' = [run EXCEPT !.no = @ + 1, !.phase = "running"]
    /\ results' = <<>>
    /\ UNCHANGED <<now, cbLast, agents, script, outputs, toolVars, peerVars>>

\* the agent's response (status line and headers) arrives
FetchResolves(i, status) ==
    /\ inv[i].pc = "fetch"
    /\ ScriptAllowsStatus(i, status)
    /\ LET s == [inv[i] EXCEPT !.timer = "cleared",
                      !.ev = Event(inv[i], "status",
                                  IF status # 200 THEN HttpStatusText(status) ELSE "",
                                  status # 200)] IN
       IF status # 200
       THEN Commit(i, AttemptError(Breaker,
                                   [s EXCEPT !.onlyNmi = FALSE, !.nAgentDone = @ + 1],
                                   Pairs[i],
                                   HttpStatusText(status), now))
       ELSE Commit(i, [b |-> Breaker, s |-> [s EXCEPT !.pc = "body"]])

\* fetch rejects: a transport error
FetchRejects(i, m) ==
    /\ inv[i].pc = "fetch"
    /\ Commit(i, InvokeCatch(Breaker,
                             [inv[i] EXCEPT !.timer = "cleared", !.onlyNmi = FALSE,
                                 !.nAgentDone = @ + 1,
                                 !.ev = Event(inv[i], "fetchRejects", m, TRUE)],
                             Pairs[i], Exc(m), now))

\* the AGENT_TIMEOUT_MS timer fires: controller.abort() makes fetch reject
TimerFires(i) ==
    /\ inv[i].pc = "fetch"
    /\ inv[i].timer = "agent"
    /\ Commit(i, InvokeCatch(Breaker,
                             [inv[i] EXCEPT !.timer = "cleared", !.onlyNmi = FALSE,
                                 !.nAgentDone = @ + 1,
                                 !.ev = Event(inv[i], "timer", MsgAborted, TRUE)],
                             Pairs[i], Exc(MsgAborted), now))

\* response.json() resolves
BodyResolves(i, body) ==
    /\ inv[i].pc = "body"
    /\ body \in AgentBodies(Pairs[i])
    /\ ScriptAllowsBody(i, body)
    /\ Commit(i, HandleAgentBody(Breaker,
                                 [inv[i] EXCEPT !.nAgentDone = @ + 1,
                                     !.reply = IF body.kind = "result" THEN body.result.kind
                                               ELSE body.kind,
                                     !.ev =
                                     Event(inv[i], "body",
                                           IF body.kind = "rpc_error" THEN body.message ELSE "",
                                           body.kind = "rpc_error")],
                                 Pairs[i], body, now))

\* response.json() rejects: unparsable body or the connection drops
BodyRejects(i, m) ==
    /\ inv[i].pc = "body"
    /\ Commit(i, InvokeCatch(Breaker,
                             [inv[i] EXCEPT !.onlyNmi = FALSE, !.nAgentDone = @ + 1,
                                 !.ev = Event(inv[i], "bodyRejects", m, TRUE)],
                             Pairs[i], Exc(m), now))

\* callMcpTool: the tool service's response arrives
ToolFetchResolves(i, status) ==
    /\ inv[i].pc = "toolfetch"
    /\ LET s == [inv[i] EXCEPT !.timer = "cleared",
                      !.ev = Event(inv[i], "toolStatus",
                                  IF status # 200 THEN HttpStatusText(status) ELSE "",
                                  status # 200)] IN
       IF status # 200
       THEN Commit(i, ToolReturn(Breaker, [s EXCEPT !.nToolDone = @ + 1], Pairs[i],
                                 [ok |-> FALSE, stdout |-> "",
                                  stderr |-> HttpStatusText(status)], now))
       ELSE Commit(i, [b |-> Breaker, s |-> [s EXCEPT !.pc = "toolbody"]])

\* callMcpTool: fetch rejects and the catch block returns ok: false
ToolFetchRejects(i, m) ==
    /\ inv[i].pc = "toolfetch"
    /\ Commit(i, ToolReturn(Breaker,
                            [inv[i] EXCEPT !.timer = "cleared", !.nToolDone = @ + 1,
                                !.ev = Event(inv[i], "toolRejects", m, TRUE)],
                            Pairs[i], [ok |-> FALSE, stdout |-> "", stderr |-> m], now))

\* callMcpTool: the TOOL_TIMEOUT_MS timer fires
ToolTimerFires(i) ==
    /\ inv[i].pc = "toolfetch"
    /\ inv[i].timer = "tool"
    /\ Commit(i, ToolReturn(Breaker,
                            [inv[i] EXCEPT !.timer = "cleared", !.nToolDone = @ + 1,
                                !.ev = Event(inv[i], "toolTimer", MsgAborted, TRUE)],
                            Pairs[i], [ok |-> FALSE, stdout |-> "", stderr |-> MsgAborted],
                            now))

\* callMcpTool: response.json() resolves
ToolBodyResolves(i, body) ==
    /\ inv[i].pc = "toolbody"
    /\ IF body.kind = "malformed"
       THEN Commit(i, InvokeCatch(Breaker,
                                  [inv[i] EXCEPT !.onlyNmi = FALSE, !.nToolDone = @ + 1,
                                      !.ev = Event(inv[i], "toolBodyMalformed", "", TRUE)],
                                  Pairs[i], Exc(MsgTypeError), now))
       ELSE Commit(i, ToolReturn(Breaker,
                                 [inv[i] EXCEPT !.nToolDone = @ + 1, !.ev =
                                     Event(inv[i], "toolBody", body.stderr, ~body.ok)],
                                 Pairs[i],
                                 [ok |-> body.ok, stdout |-> body.stdout,
                                  stderr |-> body.stderr], now))

\* callMcpTool: response.json() rejects
ToolBodyRejects(i, m) ==
    /\ inv[i].pc = "toolbody"
    /\ Commit(i, ToolReturn(Breaker,
                            [inv[i] EXCEPT !.nToolDone = @ + 1,
                                !.ev = Event(inv[i], "toolBodyRejects", m, TRUE)],
                            Pairs[i], [ok |-> FALSE, stdout |-> "", stderr |-> m], now))

PromiseAll_CompletionOrder(invs, ord) == [k \in 1..Len(invs) |-> invs[ord[k]].result]

\* Promise.all(invocations): the results by position
PromiseAll(invs, ord) == [k \in 1..Len(invs) |-> invs[k].result]

AllSettled == \A k \in 1..NPairs : inv[k].pc \in {"done", "thrown"}
AnyThrown == \E k \in 1..NPairs : inv[k].pc = "thrown"

\* the fan-out's await returns (or rejects, if a call threw)
AwaitAll ==
    /\ run.phase = "running"
    /\ AllSettled
    /\ results' = IF AnyThrown THEN <<>> ELSE PromiseAll(inv, order)
    /\ run' = [run EXCEPT !.phase = IF AnyThrown THEN "rejected" ELSE "idle"]
    /\ inv' = [k \in 1..NPairs |-> IdleInv]
    /\ UNCHANGED <<cbVars, agents, script, order, outputs, toolVars, peerVars>>

Init == BreakerInit /\ InvokerInit(AgentsMain, [k \in 1..1 |-> "any"], MaxRuns) /\ ToolInit

Next ==
    \/ Tick
    \/ StartRun
    \/ \E i \in 1..NPairs, st \in AgentStatuses : FetchResolves(i, st)
    \/ \E i \in 1..NPairs, m \in FetchErrors : FetchRejects(i, m)
    \/ \E i \in 1..NPairs : TimerFires(i)
    \/ \E i \in 1..NPairs : \E body \in AgentBodies(Pairs[i]) : BodyResolves(i, body)
    \/ \E i \in 1..NPairs, m \in BodyErrors : BodyRejects(i, m)
    \/ \E i \in 1..NPairs, st \in ToolStatuses : ToolFetchResolves(i, st)
    \/ \E i \in 1..NPairs, m \in FetchErrors : ToolFetchRejects(i, m)
    \/ \E i \in 1..NPairs : ToolTimerFires(i)
    \/ \E i \in 1..NPairs, body \in ToolBodies : ToolBodyResolves(i, body)
    \/ \E i \in 1..NPairs, m \in BodyErrors : ToolBodyRejects(i, m)
    \/ AwaitAll

\* the invoker: repeated runs over one agent with one skill, the peers free
Spec == Init /\ [][Next]_vars

\* runReview after its fan-out: the results are merged
RunReviewReturns ==
    /\ run.phase = "running"
    /\ AllSettled
    /\ results' = IF AnyThrown THEN <<>> ELSE PromiseAll(inv, order)
    /\ run' = [run EXCEPT !.phase = IF AnyThrown THEN "rejected" ELSE "idle"]
    /\ outputs' = IF AnyThrown THEN outputs ELSE Append(outputs, mergeFindings(results'))
    /\ inv' = [k \in 1..NPairs |-> IdleInv]
    /\ UNCHANGED <<cbVars, agents, script, order, toolVars, peerVars>>

\* two agents, the first with two skills
AgentsFan ==
    << [name |-> "security-agent", endpoint |-> "epA",
        skills |-> <<"review.security", "review.secrets">>],
       [name |-> "style-agent", endpoint |-> "epB", skills |-> <<"review.style">>] >>

\* one agent advertising four skills: four concurrent calls on one endpoint
AgentsSame ==
    << [name |-> "security-agent", endpoint |-> "epA",
        skills |-> <<"review.security", "review.style", "review.tests", "review.secrets">>] >>

\* every agent answers a given request the same way each time
RunsInit ==
    /\ BreakerInit
    /\ ToolInit
    /\ \/ \E scr \in [1..3 -> {"review", "rpc_error", "http_error"}] :
              InvokerInit(AgentsFan, scr, MaxReviews)
       \/ \E a, b \in {"review", "rpc_error"} :
              InvokerInit(AgentsSame, [k \in 1..4 |-> IF k = 1 THEN a ELSE b], MaxReviews)

RunsNext ==
    \/ Tick
    \/ StartRun
    \/ \E i \in 1..NPairs, st \in AgentStatuses : FetchResolves(i, st)
    \/ \E i \in 1..NPairs : \E body \in AgentBodies(Pairs[i]) : BodyResolves(i, body)
    \/ RunReviewReturns

\* repeated review runs in one process over agents that answer deterministically
SpecRuns == RunsInit /\ [][RunsNext]_vars

\* one agent advertising two skills: two concurrent calls on one endpoint
AgentsPair ==
    << [name |-> "security-agent", endpoint |-> "epA",
        skills |-> <<"review.security", "review.secrets">>] >>

RaceInit ==
    /\ BreakerInit
    /\ ToolInit
    /\ \E scr \in [1..2 -> {"review", "rpc_error"}] : InvokerInit(AgentsPair, scr, MaxReviews)

RaceNext ==
    \/ Tick
    \/ StartRun
    \/ \E i \in 1..NPairs, st \in AgentStatuses : FetchResolves(i, st)
    \/ \E i \in 1..NPairs, m \in FetchErrors : FetchRejects(i, m)
    \/ \E i \in 1..NPairs : \E body \in AgentBodies(Pairs[i]) : BodyResolves(i, body)
    \/ RunReviewReturns

\* review runs whose concurrent calls share an endpoint that is at times unreachable
SpecRace == RaceInit /\ [][RaceNext]_vars

(***************************************************************************)
(* Tool server: POST /call                                                 *)
(***************************************************************************)
MaxCalls == 2        \* /call requests in one behaviour of SpecTool

TOKEN_PERMISSIONS ==
    ("swarm-demo-token-2025" :> {"lint", "run_tests", "dep_audit"})
    @@ ("limited-token" :> {"lint"})

\* keys every object inherits from Object.prototype (a sample)
ObjectPrototypeKeys == {"toString", "constructor"}

ALLOWED_TOOLS == {"lint", "run_tests", "dep_audit"}

NoHeader == [scheme |-> "<null>", sep |-> 0, cred |-> ""]
NoToken == "<null>"

\* toLowerCase of the schemes the model sends
LowerScheme(s) == IF s \in {"Bearer", "bearer", "BEARER"} THEN "bearer" ELSE "basic"

\* authHeader.match(/^Bearer\s+(.+)$/i): the header is <scheme><sep blanks><cred>
extractBearerToken(authHeader) ==
    IF authHeader = NoHeader THEN NoToken
    ELSE IF LowerScheme(authHeader.scheme) = "bearer" /\ authHeader.sep >= 1
            /\ authHeader.cred # ""
    THEN authHeader.cred
    ELSE NoToken

\* token in TOKEN_PERMISSIONS: own and inherited keys
isValidToken(token) ==
    token \in DOMAIN TOKEN_PERMISSIONS \/ token \in ObjectPrototypeKeys

hasToolPermission_AnyTool(token, toolName) ==
    IF token \in DOMAIN TOKEN_PERMISSIONS THEN "true"
    ELSE IF token \in ObjectPrototypeKeys THEN "throws"
    ELSE "false"

\* "true", "false", or "throws": an inherited key maps to a value without .includes
hasToolPermission(token, toolName) ==
    IF token \in DOMAIN TOKEN_PERMISSIONS
    THEN IF toolName \in TOKEN_PERMISSIONS[token] THEN "true" ELSE "false"
    ELSE IF token \in ObjectPrototypeKeys THEN "throws"
    ELSE "false"

isValidTool(name) == name \in ALLOWED_TOOLS

\* ToolCallRequestSchema.safeParse(body).success: tool a non-empty string, args a record
SchemaOk(body) == body.tool # "<missing>" /\ body.tool # "" /\ body.hasArgs

\* the response of a /call request; ran: a tool handler was executed
Response(status, stderr, code, ran) ==
    [status |-> status, stderr |-> stderr, error_code |-> code, ran |-> ran]

CallNoAuth_SkipsExistence(body) ==
    IF ~body.json THEN Response(400, "Invalid JSON", "none", FALSE)
    ELSE IF ~SchemaOk(body) THEN Response(400, "Invalid request", "none", FALSE)
    ELSE Response(200, "", "none", TRUE)

\* handleCall without authentication: body, schema, allowlist, handler
CallNoAuth(body) ==
    IF ~body.json THEN Response(400, "Invalid JSON", "none", FALSE)
    ELSE IF ~SchemaOk(body) THEN Response(400, "Invalid request", "none", FALSE)
    ELSE IF ~isValidTool(body.tool) THEN Response(400, "Unknown tool", "none", FALSE)
    ELSE Response(200, "", "none", TRUE)

handleCall(auth, authHeader, body) ==
    IF auth
    THEN LET token == extractBearerToken(authHeader) IN
         IF token = NoToken
         THEN Response(401, "Missing or invalid Authorization header", "UNAUTHORIZED", FALSE)
         ELSE IF ~isValidToken(token)
         THEN Response(401, "Invalid token", "UNAUTHORIZED", FALSE)
         ELSE IF ~body.json THEN Response(400, "Invalid JSON", "none", FALSE)
         ELSE IF ~SchemaOk(body) THEN Response(400, "Invalid request", "none", FALSE)
         ELSE IF hasToolPermission(token, body.tool) = "throws"
         THEN Response(500, "uncaught TypeError", "none", FALSE)
         ELSE IF hasToolPermission(token, body.tool) = "false"
         THEN Response(403, "Token does not have permission to use tool", "FORBIDDEN", FALSE)
         ELSE CallNoAuth(body)
    ELSE CallNoAuth(body)

\* the requests the model sends
AuthHeaders ==
    {NoHeader}
    \cup {[scheme |-> sc, sep |-> 1, cred |-> cr] :
             sc \in {"Bearer"},
             cr \in {"swarm-demo-token-2025", "limited-token", "bogus", "toString"}}
    \cup {[scheme |-> "bearer", sep |-> 2, cred |-> "limited-token"],
          [scheme |-> "Basic", sep |-> 1, cred |-> "limited-token"],
          [scheme |-> "Bearer", sep |-> 0, cred |-> "limited-token"]}

CallBodies ==
    {[json |-> FALSE, tool |-> "<missing>", hasArgs |-> FALSE],
     [json |-> TRUE, tool |-> "", hasArgs |-> TRUE],
     [json |-> TRUE, tool |-> "lint", hasArgs |-> FALSE]}
    \cup {[json |-> TRUE, tool |-> tl, hasArgs |-> TRUE] :
             tl \in {"lint", "run_tests", "rm_rf"}}

\* POST /call
PostCall(authHeader, body) ==
    /\ Len(toolLog) < MaxCalls
    /\ toolLog' = Append(toolLog, [header |-> authHeader, body |-> body,
                                  response |-> handleCall(authEnabled, authHeader, body)])
    /\ UNCHANGED <<cbVars, invVars, authEnabled, peerVars>>

ToolServerInit ==
    /\ BreakerInit
    /\ InvokerInit(AgentsMain, [k \in 1..1 |-> "any"], 0)
    /\ authEnabled \in BOOLEAN
    /\ toolLog = <<>>
    /\ PeerInit

ToolNext == \E h \in AuthHeaders, body \in CallBodies : PostCall(h, body)

\* the tool server answering /call requests, with authentication on or off
SpecTool == ToolServerInit /\ [][ToolNext]_vars

CBInit == BreakerInit /\ InvokerInit(AgentsMain, [k \in 1..1 |-> "any"], MaxRuns) /\ ToolInit

CBNext ==
    \/ Tick
    \/ \E e \in Endpoints : CallIsAvailable(e)
    \/ \E e \in Endpoints : CallRecordSuccess(e)
    \/ \E e \in Endpoints : CallRecordFailure(e)
    \/ \E e \in Endpoints : CallReset(e)

\* the breaker driven through its public methods in any order
SpecCB == CBInit /\ [][CBNext]_vars


(***************************************************************************)
(* Agent server: POST /rpc                                                 *)
(***************************************************************************)
MaxRpc == 1          \* /rpc requests in one behaviour of SpecAgent

PARSE_ERROR == -32700
INVALID_REQUEST == -32600
METHOD_NOT_FOUND == -32601
INVALID_PARAMS == -32602
INTERNAL_ERROR == -32603

\* this.skillId
AgentSkillId == "review.security"

\* JsonRpcRequestSchema.safeParse(body).success
JsonRpcRequestSchemaOk(req) == req.jsonrpc = "2.0" /\ req.idIsString /\ req.method # ""

\* InvokeParamsSchema.safeParse(params).success
InvokeParamsSchemaOk(params) == params.skill # "" /\ params.input = "ok"

jsonRpcError(code) == [kind |-> "error", code |-> code]
jsonRpcSuccess == [kind |-> "result", code |-> 0]

\* what a /rpc request led to: the response, and whether analyze() was called
RpcOutcome(response, analyzed) == [response |-> response, analyzed |-> analyzed]

handleRpcRequest_SkillInsideAnalysis(req) ==
    IF ~req.json THEN RpcOutcome(jsonRpcError(PARSE_ERROR), FALSE)
    ELSE IF ~JsonRpcRequestSchemaOk(req) THEN RpcOutcome(jsonRpcError(INVALID_REQUEST), FALSE)
    ELSE IF req.method # "invoke" THEN RpcOutcome(jsonRpcError(METHOD_NOT_FOUND), FALSE)
    ELSE IF ~InvokeParamsSchemaOk(req.params)
    THEN RpcOutcome(jsonRpcError(INVALID_PARAMS), FALSE)
    ELSE IF req.params.skill # AgentSkillId \/ req.analysis = "throws"
    THEN RpcOutcome(jsonRpcError(INTERNAL_ERROR), FALSE)
    ELSE RpcOutcome(jsonRpcSuccess, TRUE)

handleRpcRequest_AnalyzeBeforeSkill(req) ==
    IF ~req.json THEN RpcOutcome(jsonRpcError(PARSE_ERROR), FALSE)
    ELSE IF ~JsonRpcRequestSchemaOk(req) THEN RpcOutcome(jsonRpcError(INVALID_REQUEST), FALSE)
    ELSE IF req.method # "invoke" THEN RpcOutcome(jsonRpcError(METHOD_NOT_FOUND), FALSE)
    ELSE IF ~InvokeParamsSchemaOk(req.params)
    THEN RpcOutcome(jsonRpcError(INVALID_PARAMS), FALSE)
    ELSE IF req.analysis = "throws" THEN RpcOutcome(jsonRpcError(INTERNAL_ERROR), TRUE)
    ELSE IF req.params.skill # AgentSkillId
    THEN RpcOutcome(jsonRpcError(INVALID_PARAMS), TRUE)
    ELSE RpcOutcome(jsonRpcSuccess, TRUE)

\* BaseAgent.handleRpcRequest; req.analysis is what analyze() would do if called
handleRpcRequest(req) ==
    IF ~req.json THEN RpcOutcome(jsonRpcError(PARSE_ERROR), FALSE)
    ELSE IF ~JsonRpcRequestSchemaOk(req) THEN RpcOutcome(jsonRpcError(INVALID_REQUEST), FALSE)
    ELSE IF req.method # "invoke" THEN RpcOutcome(jsonRpcError(METHOD_NOT_FOUND), FALSE)
    ELSE IF ~InvokeParamsSchemaOk(req.params)
    THEN RpcOutcome(jsonRpcError(INVALID_PARAMS), FALSE)
    ELSE IF req.params.skill # AgentSkillId
    THEN RpcOutcome(jsonRpcError(INVALID_PARAMS), FALSE)
    ELSE IF req.analysis = "throws" THEN RpcOutcome(jsonRpcError(INTERNAL_ERROR), TRUE)
    ELSE RpcOutcome(jsonRpcSuccess, TRUE)

\* the requests the model sends
RpcRequests ==
    [json : BOOLEAN, jsonrpc : {"2.0", "1.0"}, idIsString : BOOLEAN,
     method : {"invoke", "review", ""},
     params : [skill : {"review.security", "review.style", ""},
               input : {"ok", "bad_url", "missing"}],
     analysis : {"findings", "throws"}]

\* POST /rpc
PostRpc(req) ==
    /\ Len(rpcLog) < MaxRpc
    /\ rpcLog' = Append(rpcLog, [request |-> req, outcome |-> handleRpcRequest(req)])
    /\ UNCHANGED <<cbVars, invVars, toolVars, disc>>

AgentServerInit ==
    /\ BreakerInit
    /\ InvokerInit(AgentsMain, [k \in 1..1 |-> "any"], 0)
    /\ ToolInit

AgentNext == \E req \in RpcRequests : PostRpc(req)

\* an agent server answering /rpc requests
SpecAgent == AgentServerInit /\ [][AgentNext]_vars


(***************************************************************************)
(* Discovery: discoverAgents(baseUrls)                                     *)
(***************************************************************************)
MaxUrls == 2         \* length of the base URL list given to discoverAgents

SUPPORTED_PROTOCOL_VERSION == "1.0"

\* version.split(".")[0]
MajorOf(version) ==
    CASE version = "1.0" -> "1"
      [] version = "1.7" -> "1"
      [] version = "2.0" -> "2"
      [] OTHER -> version

isProtocolCompatible(agentVersion) ==
    MajorOf(SUPPORTED_PROTOCOL_VERSION) = MajorOf(agentVersion)

\* the base URL list, in input order
BaseUrls == [k \in 1..MaxUrls |->
    CASE k = 1 -> "http://agent1.local"
      [] k = 2 -> "http://agent2.local"
      [] OTHER -> "http://agent3.local"]

\* the card before its body has been read
NoCard == [name |-> "", endpoint |-> "", skills |-> [kind |-> "missing", length |-> 0],
           protocol_version |-> ""]

\* card.skills?.length: undefined when skills is missing, else its length
\* property, which a list and a string both have
SkillsLength(skills) == IF skills.kind = "missing" THEN 0 ELSE skills.length

\* the three validation ifs of the map callback: TRUE when none throws
CardPasses(card) ==
    /\ ~(card.name = "" \/ card.endpoint = "" \/ SkillsLength(card.skills) = 0)
    /\ card.protocol_version # ""
    /\ isProtocolCompatible(card.protocol_version)

\* the cards the server at BaseUrls[k] may answer with
CardsAt(k) ==
    LET own == IF k = 1 THEN "http://agent1.local/rpc"
               ELSE IF k = 2 THEN "http://agent2.local/rpc" ELSE "http://agent3.local/rpc"
        good == [name |-> "agent", endpoint |-> own,
                 skills |-> [kind |-> "list", length |-> 1], protocol_version |-> "1.0"]
    IN  { good,
          [good EXCEPT !.protocol_version = "1.7"],
          [good EXCEPT !.protocol_version = "2.0"],
          [good EXCEPT !.protocol_version = ""],
          [good EXCEPT !.skills = [kind |-> "list", length |-> 0]],
          [good EXCEPT !.skills = [kind |-> "missing", length |-> 0]],
          [good EXCEPT !.skills = [kind |-> "string", length |-> 3]],
          [good EXCEPT !.endpoint = "http://collector.example/rpc"],
          [good EXCEPT !.name = ""] }

SettledAgents_CompletionOrder(d) ==
    LET kept == SelectSeq(d.order, LAMBDA k : d.pc[k] = "fulfilled")
    IN  [i \in 1..Len(kept) |-> [baseUrl |-> BaseUrls[kept[i]], card |-> d.cards[kept[i]]]]

\* the loop over the allSettled results: fulfilled values, by index
SettledAgents(d) ==
    LET all == [k \in 1..Len(d.pc) |-> k]
        kept == SelectSeq(all, LAMBDA k : d.pc[k] = "fulfilled")
    IN  [i \in 1..Len(kept) |-> [baseUrl |-> BaseUrls[kept[i]], card |-> d.cards[kept[i]]]]

\* discoverAgents is called: every callback runs up to its fetch
StartDiscovery ==
    /\ disc.phase = "idle"
    /\ disc' = [disc EXCEPT !.phase = "running",
                            !.pc = [k \in 1..MaxUrls |-> "fetch"],
                            !.cards = [k \in 1..MaxUrls |-> NoCard]]
    /\ UNCHANGED <<cbVars, invVars, toolVars, rpcLog>>

\* the callback of URL k settles
Settle(k, status, card) ==
    disc' = [disc EXCEPT !.pc[k] = status, !.cards[k] = card, !.order = Append(@, k)]

\* fetch(cardUrl) resolves with an HTTP status
CardFetchResolves(k, ok) ==
    /\ disc.phase = "running" /\ disc.pc[k] = "fetch"
    /\ IF ok THEN disc' = [disc EXCEPT !.pc[k] = "body"]
             ELSE Settle(k, "rejected", NoCard)
    /\ UNCHANGED <<cbVars, invVars, toolVars, rpcLog>>

\* fetch(cardUrl) rejects: the URL is unreachable
CardFetchRejects(k) ==
    /\ disc.phase = "running" /\ disc.pc[k] = "fetch"
    /\ Settle(k, "rejected", NoCard)
    /\ UNCHANGED <<cbVars, invVars, toolVars, rpcLog>>

\* response.json() resolves with a card, which is then validated
CardBodyResolves(k, card) ==
    /\ disc.phase = "running" /\ disc.pc[k] = "body"
    /\ Settle(k, IF CardPasses(card) THEN "fulfilled" ELSE "rejected", card)
    /\ UNCHANGED <<cbVars, invVars, toolVars, rpcLog>>

\* response.json() rejects: the body is not JSON
CardBodyRejects(k) ==
    /\ disc.phase = "running" /\ disc.pc[k] = "body"
    /\ Settle(k, "rejected", NoCard)
    /\ UNCHANGED <<cbVars, invVars, toolVars, rpcLog>>

\* Promise.allSettled resolves; discoverAgents returns the agents
DiscoveryReturns ==
    /\ disc.phase = "running"
    /\ \A k \in 1..MaxUrls : disc.pc[k] \in {"fulfilled", "rejected"}
    /\ disc' = [disc EXCEPT !.phase = "done", !.agents = SettledAgents(disc)]
    /\ UNCHANGED <<cbVars, invVars, toolVars, rpcLog>>

\* attemptInvoke posts the diff and the Authorization header to a discovered
\* agent's card.endpoint
InvokeDiscovered(i) ==
    /\ disc.phase = "done"
    /\ disc.agents[i].card.endpoint \notin disc.posted
    /\ disc' = [disc EXCEPT !.posted = @ \cup {disc.agents[i].card.endpoint}]
    /\ UNCHANGED <<cbVars, invVars, toolVars, rpcLog>>

DiscNext ==
    \/ StartDiscovery
    \/ \E k \in 1..MaxUrls :
         \/ \E ok \in BOOLEAN : CardFetchResolves(k, ok)
         \/ CardFetchRejects(k)
         \/ \E card \in CardsAt(k) : CardBodyResolves(k, card)
         \/ CardBodyRejects(k)
    \/ DiscoveryReturns
    \/ \E i \in 1..Len(disc.agents) : InvokeDiscovered(i)

\* one discoverAgents call and the invocations that follow it
SpecDisc == AgentServerInit /\ [][DiscNext]_vars


(***************************************************************************)
(* The merger alone: mergeFindings(results) on results built by hand       *)
(***************************************************************************)
MaxMergeResults == 2     \* InvokeResults handed to mergeFindings
MaxMergeFindings == 3    \* findings in all of them together

\* the findings the results are built from
FindingInputs ==
    LET f(sev, title, file, line, ev) ==
            [severity |-> sev, title |-> title, evidence |-> ev,
             recommendation |-> "Fix", file |-> file, line |-> line]
    IN  { f("low", "B", "src/a.ts", 3, "first"),
          f("critical", "B", "src/a.ts", 3, "second"),
          f("low", "B", "src/a.ts", NoLine, "no line"),
          f("high", "B", NoFile, NoLine, "no file"),
          f("high", "a|b", "c", 1, "bar in title"),
          f("high", "a", "b|c", 1, "bar in file"),
          f("medium", "Caf<U+00E9>", NoFile, 2, "precomposed"),
          f("medium", "Cafe<U+0301>", NoFile, 2, "decomposed"),
          f("medium", "B", NoFile, 2, "plain") }

\* another InvokeResult, with no findings yet
AddResult ==
    /\ outputs = <<>>
    /\ Len(results) < MaxMergeResults
    /\ results' = Append(results,
           MkResult([agentName |-> "agent", skillId |-> "review.security"],
                    TRUE, <<>>, NoError, FALSE))
    /\ UNCHANGED <<cbVars, agents, script, inv, run, order, outputs, toolVars, peerVars>>

\* another finding in the last InvokeResult
AddFinding(f) ==
    /\ outputs = <<>>
    /\ results # <<>>
    /\ Len(Flatten(results)) < MaxMergeFindings
    /\ results' = [results EXCEPT ![Len(results)].findings = Append(@, f)]
    /\ UNCHANGED <<cbVars, agents, script, inv, run, order, outputs, toolVars, peerVars>>

\* mergeFindings(results)
MergeResults ==
    /\ outputs = <<>>
    /\ results # <<>>
    /\ outputs' = <<mergeFindings(results)>>
    /\ UNCHANGED <<cbVars, agents, script, inv, run, results, order, toolVars, peerVars>>

MergeNext ==
    \/ AddResult
    \/ \E f \in FindingInputs : AddFinding(f)
    \/ MergeResults

\* one call of mergeFindings
SpecMerge == AgentServerInit /\ [][MergeNext]_vars

(***************************************************************************)
(* Properties                                                              *)
(***************************************************************************)
Started(k) == inv[k].nReq >= 1

\* C1: invokeAgent never throws: whatever the agent and the tool service do, the
\* call ends by returning an InvokeResult for its pair (so the fan-out never
\* rejects), and a result without `error` is one for which a final response was
\* recorded as a success and no failure was.
C1_NeverThrows ==
    /\ run.phase # "rejected"
    /\ \A k \in 1..NPairs :
        /\ inv[k].pc # "thrown"
        /\ inv[k].pc = "done" =>
            /\ inv[k].result.agentName = Pairs[k].agentName
            /\ inv[k].result.skillId = Pairs[k].skillId
            /\ inv[k].result.error = NoError => (inv[k].nRecS = 1 /\ inv[k].nRecF = 0)

\* a call returned after an exception raised while handling a malformed reply
C1_Witness ==
    \E k \in 1..NPairs :
        /\ inv[k].pc = "done"
        /\ inv[k].result.error = ErrText(MsgTypeError)
        /\ inv[k].nRecF = 1

\* C2: every call eventually returns because at each suspension point (request
\* sent, body awaited, tool called) the timeout timer of the pending operation is
\* armed, so that a peer that stalls is aborted.
C2_SuspendedHasTimer ==
    \A k \in 1..NPairs :
        /\ inv[k].pc \in {"fetch", "body"} => inv[k].timer = "agent"
        /\ inv[k].pc \in {"toolfetch", "toolbody"} => inv[k].timer = "tool"

\* C3: the fan-out returns one InvokeResult per (agent, skill) pair, at the pair's
\* position, whatever the completion order; every pair is invoked whatever
\* happens to the others, and the fan-out never rejects.
C3_FanOutOrder ==
    /\ run.phase # "rejected"
    /\ run.phase = "running" => \A k \in 1..NPairs : inv[k].pc # "idle"
    /\ results # <<>> =>
        /\ Len(results) = NPairs
        /\ \A k \in 1..NPairs :
            /\ results[k].agentName = Pairs[k].agentName
            /\ results[k].skillId = Pairs[k].skillId

\* results returned after the calls completed out of order, some failed, some not
C3_Witness ==
    /\ results # <<>>
    /\ Len(agents) = 2
    /\ order = <<3, 2, 1>>
    /\ results[1].error = NoError
    /\ results[2].error # NoError
    /\ results[3].error = NoError

\* C4: two runs in one process over the same diff and agents, the agents answering
\* the same way each time, produce the same merged findings and bySeverity.
C4_RunsIdentical ==
    \A j, k \in 1..Len(outputs) :
        /\ outputs[j].findings = outputs[k].findings
        /\ outputs[j].bySeverity = outputs[k].bySeverity

\* C5: with authentication enabled a tool handler runs only for a request whose
\* bearer token is in the token map, whose token is permitted the requested tool,
\* and whose tool is in the allowlist.
C5_HandlerOnlyIfPermitted ==
    authEnabled =>
        \A n \in 1..Len(toolLog) :
            toolLog[n].response.ran =>
                /\ toolLog[n].header # NoHeader
                /\ LowerScheme(toolLog[n].header.scheme) = "bearer"
                /\ toolLog[n].header.cred \in DOMAIN TOKEN_PERMISSIONS
                /\ toolLog[n].body.tool \in TOKEN_PERMISSIONS[toolLog[n].header.cred]
                /\ toolLog[n].body.tool \in ALLOWED_TOOLS

\* the limited token was refused run_tests and then ran lint
C5_Witness ==
    /\ authEnabled
    /\ Len(toolLog) = 2
    /\ toolLog[1].header.cred = "limited-token"
    /\ toolLog[1].body.tool = "run_tests"
    /\ toolLog[1].response.status = 403
    /\ toolLog[2].header.cred = "limited-token"
    /\ toolLog[2].body.tool = "lint"
    /\ toolLog[2].response.ran

\* C6: a recordFailure on a closed circuit opens it exactly when it brings the
\* number of consecutive failures to failureThreshold; on every earlier failure
\* the circuit stays closed and available.
C6_OpensAtThreshold ==
    (cbLast.op = "recordFailure" /\ cbLast.before = "closed") =>
        IF consec[cbLast.ep] = failureThreshold
        THEN GetState(circuits, cbLast.ep) = "open"
        ELSE /\ consec[cbLast.ep] < failureThreshold
             /\ GetState(circuits, cbLast.ep) = "closed"
             /\ IsAvailableResult(circuits, cbLast.ep, now)

\* the failure that trips a closed circuit
C6_Witness ==
    /\ cbLast.op = "recordFailure"
    /\ cbLast.before = "closed"
    /\ GetState(circuits, cbLast.ep) = "open"
    /\ consec[cbLast.ep] = failureThreshold

\* C7: once a circuit has opened, no call is admitted on its endpoint until
\* cooldownMs has elapsed since it opened, also when calls already in flight
\* record their outcome after the circuit opened.
C7_OpenUntilCooldown ==
    \A k \in 1..NPairs :
        (Started(k) /\ inv[k].admit.openedAt # Never) =>
            inv[k].admit.at - inv[k].admit.openedAt >= cooldownMs

\* C8: while a circuit is half_open at most one call admitted as its probe is in
\* flight on the endpoint.
C8_OneProbe ==
    \A e \in Endpoints :
        GetState(circuits, e) = "half_open" =>
            Cardinality({k \in 1..NPairs :
                            /\ Pairs[k].endpoint = e
                            /\ inv[k].probe
                            /\ inv[k].pc \notin {"idle", "done"}}) <= 1

\* C9: recordSuccess closes the circuit and resets the failure counter from any
\* state; recordFailure on a half_open circuit reopens it with the cooldown
\* restarted, and an open circuit lets a call through (turning half_open) only
\* once cooldownMs has elapsed since it opened.
C9_ProbeOutcome ==
    /\ cbLast.op = "recordSuccess" =>
        /\ GetState(circuits, cbLast.ep) = "closed"
        /\ GetFailureCount(circuits, cbLast.ep) = 0
    /\ (cbLast.op = "recordFailure" /\ cbLast.before = "half_open") =>
        /\ GetState(circuits, cbLast.ep) = "open"
        /\ GetCircuit(circuits, cbLast.ep).lastFailure = cbLast.at
        /\ ~IsAvailableResult(circuits, cbLast.ep, cbLast.at)
    /\ (cbLast.op = "isAvailable" /\ cbLast.before = "open" /\ cbLast.ret) =>
        /\ GetState(circuits, cbLast.ep) = "half_open"
        /\ cbLast.at - openedAt[cbLast.ep] >= cooldownMs

\* a probe has just failed
C9_Witness ==
    /\ cbLast.op = "recordFailure"
    /\ cbLast.before = "half_open"
    /\ GetState(circuits, cbLast.ep) = "open"

\* C10: an agent that answers every request with need-more-info naming a tool
\* that succeeds is sent at most MAX_NEGOTIATION_ROUNDS requests, and its call
\* ends with "Max negotiation rounds (2) exceeded", no findings and one recorded
\* circuit failure.
C10_MaxRounds ==
    \A k \in 1..NPairs :
        (Started(k) /\ inv[k].onlyNmi) =>
            /\ inv[k].nReq <= MAX_NEGOTIATION_ROUNDS
            /\ inv[k].pc = "done" =>
                /\ inv[k].nReq = 2
                /\ inv[k].result.error =
                     [kind |-> "Max negotiation rounds (<N>) exceeded", n |-> 2]
                /\ inv[k].result.hasFindings
                /\ inv[k].result.findings = <<>>
                /\ inv[k].nRecF = 1

\* the call of an agent that kept asking has returned
C10_Witness ==
    \E k \in 1..NPairs :
        /\ inv[k].pc = "done"
        /\ inv[k].onlyNmi
        /\ inv[k].nReq = 2
        /\ inv[k].result.error = ErrMaxRounds

\* the accumulation { ...ctx, [key]: value } of the tool calls g, a later call with
\* the same key replacing an earlier one
ExpectedContext(g) ==
    {[key |-> g[n].key, value |-> g[n].value] :
        n \in {n \in 1..Len(g) : \A j \in (n + 1)..Len(g) : g[j].key # g[n].key}}

RequestInFlight(k) == inv[k].pc \in {"fetch", "body"}

\* C11: a request of round r, a retried one included, carries as additional_context
\* the accumulation of the stdout of the successful tool calls of the earlier
\* rounds of its own invocation, keyed by request_type; a first-round request
\* carries none, also when an earlier invocation had gathered context.
C11_ContextAccumulates ==
    \A k \in 1..NPairs :
        RequestInFlight(k) =>
            /\ Len(inv[k].gathered) = inv[k].round
            /\ inv[k].sent = ExpectedContext(inv[k].gathered)
            /\ inv[k].round = 0 => inv[k].sent = {}

\* a retried request of the second round, carrying the lint output
C11_Witness ==
    \E k \in 1..NPairs :
        /\ inv[k].pc = "fetch"
        /\ inv[k].round = 1
        /\ inv[k].attempt = 1
        /\ inv[k].sent = {[key |-> "test_output", value |-> "Linting complete."]}

\* C12: after a non-2xx status or a JSON-RPC error object the call has returned
\* with that message as its error, having sent no further request and recorded one
\* circuit failure and no success.
C12_ResponseErrorNotRetried ==
    \A k \in 1..NPairs :
        (inv[k].ev.kind \in {"status", "body"} /\ inv[k].ev.err) =>
            /\ inv[k].pc = "done"
            /\ inv[k].result.error = ErrText(inv[k].ev.msg)
            /\ inv[k].nRecF = 1
            /\ inv[k].nRecS = 0

TransportEvents == {"fetchRejects", "timer", "bodyRejects"}
\* the messages that name an abort, a timeout or a refused connection
Transient(m) == m \in {MsgAborted, MsgTimeout, MsgRefused}

\* C13: after a transport exception on an agent request the request has been
\* re-sent exactly when the message is transient and no retry had been used in
\* the round; otherwise the call has returned with one circuit failure recorded.
C13_RetryIffTransient ==
    \A k \in 1..NPairs :
        inv[k].ev.kind \in TransportEvents =>
            IF Transient(inv[k].ev.msg) /\ inv[k].ev.attempt < MAX_RETRIES
            THEN /\ inv[k].pc = "fetch"
                 /\ inv[k].attempt = inv[k].ev.attempt + 1
                 /\ inv[k].retried
                 /\ inv[k].nRecF = 0
            ELSE /\ inv[k].pc = "done"
                 /\ inv[k].result.error # NoError
                 /\ inv[k].nRecF = 1
                 /\ inv[k].nRecS = 0

\* the retry of the round was used and the second abort ended the call
C13_Witness ==
    \E k \in 1..NPairs :
        /\ inv[k].ev.kind = "timer"
        /\ inv[k].ev.attempt = MAX_RETRIES
        /\ inv[k].pc = "done"
        /\ inv[k].nReq = 2

\* C14: a call whose last attempt was aborted or timed out returns the error
\* "Timeout after 5000ms", whatever the wording of the transport's message.
C14_TimeoutText ==
    \A k \in 1..NPairs :
        (/\ inv[k].pc = "done"
         /\ inv[k].ev.kind \in TransportEvents
         /\ inv[k].ev.msg \in {MsgAborted, MsgTimeout}) =>
            inv[k].result.error = ErrTimeout

\* C15: the result of a call that passed the breaker check has retried = true
\* exactly when an agent request or a tool call of that call was re-sent: more
\* agent requests than rounds begun, or more tool calls than tools asked for.
C15_RetriedFlag ==
    \A k \in 1..NPairs :
        (inv[k].pc = "done" /\ Started(k)) =>
            (inv[k].result.retried = TRUE) =
                (\/ inv[k].nReq > inv[k].round + 1
                 \/ inv[k].nToolReq > inv[k].nNeed)

\* a tool call was re-sent in the first round and the call ended in the second
C15_Witness ==
    \E k \in 1..NPairs :
        /\ inv[k].pc = "done"
        /\ inv[k].round = 1
        /\ inv[k].nReq = 2
        /\ inv[k].nToolReq = 2
        /\ inv[k].nNeed = 1
        /\ inv[k].result.retried = TRUE

ToolFailEvents == {"toolStatus", "toolRejects", "toolTimer", "toolBody", "toolBodyRejects"}

\* C16: when the tool an agent asked for fails (ok = false, a non-2xx status, a
\* transport error or a timeout) the tool call is re-sent or the call returns
\* "Agent requested <request_type> via <tool> but tool call failed[: <stderr>]"
\* with no findings; a circuit success and no circuit failure is recorded, and
\* the agent's circuit is left closed with a failure count of 0.
C16_ToolFailureSparesCircuit ==
    \A k \in 1..NPairs :
        (inv[k].ev.kind \in ToolFailEvents /\ inv[k].ev.err) =>
            /\ inv[k].pc \in {"toolfetch", "done"}
            /\ inv[k].nRecF = 0
            /\ inv[k].pc = "toolfetch" => inv[k].retried
            /\ inv[k].pc = "done" =>
                /\ inv[k].result.error =
                     [kind |-> "Agent requested <request_type> via <tool> but tool call failed<detail>",
                      request_type |-> inv[k].need.request_type,
                      tool |-> inv[k].need.tool, detail |-> inv[k].ev.msg]
                /\ inv[k].result.hasFindings
                /\ inv[k].result.findings = <<>>
                /\ inv[k].nRecS = 1
                /\ GetState(circuits, Pairs[k].endpoint) = "closed"
                /\ GetFailureCount(circuits, Pairs[k].endpoint) = 0

\* the tool call timed out twice, on an endpoint that had failures before
C16_Witness ==
    \E k \in 1..NPairs :
        /\ inv[k].pc = "done"
        /\ inv[k].ev.kind = "toolTimer"
        /\ inv[k].nToolReq = 2
        /\ inv[k].result.error = ErrToolFailed("test_output", "lint", MsgAborted)
        /\ run.no = 3
        /\ GetFailureCount(circuits, Pairs[k].endpoint) = 0

\* the call of pair k returned at the breaker check
Rejected(s, k) ==
    /\ s.pc = "done"
    /\ s.result.error =
         [kind |-> "Circuit breaker open for <agentName>", agentName |-> Pairs[k].agentName]

C17_Step ==
    /\ run'.no # run.no =>
        \A k \in 1..NPairs :
            ~IsAvailableResult(circuits, Pairs[k].endpoint, now) =>
                /\ Rejected(inv'[k], k)
                /\ inv'[k].result.hasFindings
                /\ inv'[k].result.findings = <<>>
                /\ inv'[k].nReq = 0
                /\ inv'[k].nToolReq = 0
                /\ inv'[k].nRecS = 0
                /\ inv'[k].nRecF = 0
                /\ inv'[k].nLat = 0
                /\ circuits'[Pairs[k].endpoint] = circuits[Pairs[k].endpoint]
                /\ consec'[Pairs[k].endpoint] = consec[Pairs[k].endpoint]
    /\ (run'.no = run.no /\ run'.phase = "running") =>
        \A k \in 1..NPairs : Rejected(inv[k], k) => inv'[k] = inv[k]

\* C17: a call that finds its endpoint unavailable returns at once with "Circuit
\* breaker open for <agentName>" and no findings, and does nothing else: it sends
\* no agent or tool request, records no success, failure or latency, leaves the
\* circuit as it was, and does nothing later.
C17_RejectedHasNoEffect == [][C17_Step]_vars

\* the second run found the endpoint's circuit open
C17_Witness ==
    \E k \in 1..NPairs :
        /\ Rejected(inv[k], k)
        /\ run.no = 2
        /\ GetState(circuits, Pairs[k].endpoint) = "open"
        /\ inv[k].nLat = 0

\* FindingSchema: a severity of the enum, a non-empty title, a positive line if any
ValidFinding(f) ==
    /\ f.severity \in Severities
    /\ f.title # ""
    /\ f.line = NoLine \/ f.line >= 1

\* C18: a result without `error` has a findings sequence, possibly empty, whose
\* elements are all schema-valid Findings, whatever the agent's result was.
C18_FindingsValid ==
    \A k \in 1..NPairs :
        (inv[k].pc = "done" /\ inv[k].result.error = NoError) =>
            /\ inv[k].result.hasFindings
            /\ \A n \in 1..Len(inv[k].result.findings) :
                   ValidFinding(inv[k].result.findings[n])

\* C19: every result that carries an error has an empty findings sequence, and
\* every merged finding is a finding of a result without error.
C19_FailedContributeNothing ==
    /\ \A k \in 1..NPairs :
        (inv[k].pc = "done" /\ inv[k].result.error # NoError) =>
            (inv[k].result.hasFindings /\ inv[k].result.findings = <<>>)
    /\ \A k \in 1..Len(results) :
        results[k].error # NoError =>
            (results[k].hasFindings /\ results[k].findings = <<>>)
    /\ (results # <<>> /\ \A k \in 1..Len(results) : results[k].hasFindings) =>
        \A n \in 1..Len(mergeFindings(results).findings) :
            \E k \in 1..Len(results) :
                /\ results[k].error = NoError
                /\ \E j \in 1..Len(results[k].findings) :
                       results[k].findings[j] = mergeFindings(results).findings[n]

\* the second fan-out returned a failed result, which adds nothing to the merge
C19_Witness ==
    /\ results # <<>>
    /\ results[1].error = ErrText("Invalid params")
    /\ mergeFindings(results).findings = <<>>
    /\ run.no = 2

\* the Authorization header is "Bearer <token>"
HeaderOk(h) ==
    /\ h # NoHeader
    /\ LowerScheme(h.scheme) = "bearer"
    /\ h.sep >= 1
    /\ h.cred # ""

\* the status the first failing check gives, in the order header, token, body
\* schema, tool permission, tool existence
StatusByFirstFailingCheck(h, body) ==
    IF ~HeaderOk(h) THEN 401
    ELSE IF h.cred \notin DOMAIN TOKEN_PERMISSIONS THEN 401
    ELSE IF ~body.json \/ body.tool \in {"<missing>", ""} \/ ~body.hasArgs THEN 400
    ELSE IF body.tool \notin TOKEN_PERMISSIONS[h.cred] THEN 403
    ELSE IF body.tool \notin ALLOWED_TOOLS THEN 400
    ELSE 200

\* C20: with authentication enabled every /call response has the status of the
\* first failing check in the order header (401), token (401), body schema (400),
\* tool permission (403), tool existence (400), and is 200 exactly when every
\* check passed and the handler ran.
C20_CheckOrder ==
    authEnabled =>
        \A n \in 1..Len(toolLog) :
            /\ toolLog[n].response.status =
                 StatusByFirstFailingCheck(toolLog[n].header, toolLog[n].body)
            /\ (toolLog[n].response.status = 200) = toolLog[n].response.ran

\* the body is JSON with a non-empty tool name and an args record
BodyValid(body) == body.json /\ body.tool \notin {"<missing>", ""} /\ body.hasArgs

\* C21: with authentication disabled a handler runs exactly when the body is
\* schema-valid and the tool is in the allowlist, whatever the Authorization
\* header; the response is then 200, and 400 for a malformed body or unknown tool.
C21_NoAuthStillValidates ==
    ~authEnabled =>
        \A n \in 1..Len(toolLog) :
            /\ toolLog[n].response.ran =
                 (BodyValid(toolLog[n].body) /\ toolLog[n].body.tool \in ALLOWED_TOOLS)
            /\ toolLog[n].response.status = IF toolLog[n].response.ran THEN 200 ELSE 400
            /\ \A m \in 1..Len(toolLog) :
                 toolLog[m].body = toolLog[n].body =>
                     toolLog[m].response = toolLog[n].response

\* without a header run_tests ran; with an unknown token an unknown tool got 400
C21_Witness ==
    /\ ~authEnabled
    /\ Len(toolLog) = 2
    /\ toolLog[1].header = NoHeader
    /\ toolLog[1].body.tool = "run_tests"
    /\ toolLog[1].response.ran
    /\ toolLog[2].header.cred = "bogus"
    /\ toolLog[2].body.tool = "rm_rf"
    /\ toolLog[2].response.status = 400
    /\ toolLog[2].response.stderr = "Unknown tool"

\* the code of the first failing check, in the order body parse, envelope,
\* method, params, skill, execution; 0 when every check passes
CodeByFirstFailingCheck(req) ==
    IF ~req.json THEN -32700
    ELSE IF req.jsonrpc # "2.0" \/ ~req.idIsString \/ req.method = "" THEN -32600
    ELSE IF req.method # "invoke" THEN -32601
    ELSE IF req.params.skill = "" \/ req.params.input # "ok" THEN -32602
    ELSE IF req.params.skill # "review.security" THEN -32602
    ELSE IF req.analysis = "throws" THEN -32603
    ELSE 0

\* C22: every /rpc request is answered with the error code of its first failing
\* check (-32700, -32600, -32601, -32602, -32602 for a foreign skill, -32603 for
\* an exception in analysis), and with a result exactly when no check fails.
C22_ErrorCodeOrder ==
    \A n \in 1..Len(rpcLog) :
        /\ rpcLog[n].outcome.response.code = CodeByFirstFailingCheck(rpcLog[n].request)
        /\ (rpcLog[n].outcome.response.kind = "result") =
             (CodeByFirstFailingCheck(rpcLog[n].request) = 0)

\* a well-formed request for another agent's skill was answered -32602
C22_Witness ==
    \E n \in 1..Len(rpcLog) :
        /\ rpcLog[n].request.json
        /\ rpcLog[n].request.method = "invoke"
        /\ rpcLog[n].request.params = [skill |-> "review.style", input |-> "ok"]
        /\ rpcLog[n].request.analysis = "throws"
        /\ rpcLog[n].outcome.response = [kind |-> "error", code |-> -32602]

\* C23: analysis runs only for a request that passed the JSON parse, the
\* envelope, method and params checks and names the agent's own skill.
C23_AnalysisAfterValidation ==
    \A n \in 1..Len(rpcLog) :
        rpcLog[n].outcome.analyzed =>
            /\ rpcLog[n].request.json
            /\ rpcLog[n].request.jsonrpc = "2.0"
            /\ rpcLog[n].request.idIsString
            /\ rpcLog[n].request.method = "invoke"
            /\ rpcLog[n].request.params = [skill |-> "review.security", input |-> "ok"]

\* analysis ran for a valid request and threw
C23_Witness ==
    \E n \in 1..Len(rpcLog) :
        /\ rpcLog[n].outcome.analyzed
        /\ rpcLog[n].outcome.response = [kind |-> "error", code |-> -32603]
        /\ rpcLog[n].request.params.skill = "review.security"

\* C24: every agent returned by discovery has a protocol_version of the
\* supported major and a non-empty skills list; a card with another major, no
\* version or an empty skills list is never returned.
C24_ReturnedCardsCompatible ==
    disc.phase = "done" =>
        \A i \in 1..Len(disc.agents) :
            /\ disc.agents[i].card.protocol_version \in {"1.0", "1.7"}
            /\ disc.agents[i].card.skills.kind = "list"
            /\ disc.agents[i].card.skills.length > 0

\* the host of a URL
HostOf(url) ==
    CASE url \in {"http://agent1.local", "http://agent1.local/rpc"} -> "agent1.local"
      [] url \in {"http://agent2.local", "http://agent2.local/rpc"} -> "agent2.local"
      [] url \in {"http://agent3.local", "http://agent3.local/rpc"} -> "agent3.local"
      [] url = "http://collector.example/rpc" -> "collector.example"
      [] OTHER -> ""

\* C25: the returned agents are the accepted URLs in input order, whatever the
\* completion order; a failed URL removes its own entry only.
C25_InputOrderSubsequence ==
    disc.phase = "done" =>
        /\ \A i, j \in 1..Len(disc.agents) :
              i < j => \E a, b \in 1..MaxUrls :
                  /\ a < b
                  /\ disc.agents[i].baseUrl = BaseUrls[a]
                  /\ disc.agents[j].baseUrl = BaseUrls[b]
        /\ \A k \in 1..MaxUrls :
              (\E i \in 1..Len(disc.agents) : disc.agents[i].baseUrl = BaseUrls[k])
                  <=> (disc.cards[k] # NoCard /\ CardPasses(disc.cards[k]))
        /\ Len(disc.agents) =
              Cardinality({k \in 1..MaxUrls : disc.cards[k] # NoCard /\ CardPasses(disc.cards[k])})

\* the last URL of the list settled first and the first URL settled after it;
\* both were accepted and the result still begins with the first URL
C25_Witness ==
    /\ disc.phase = "done"
    /\ disc.order[1] = MaxUrls
    /\ Len(disc.agents) >= 2
    /\ disc.agents[1].baseUrl = BaseUrls[1]
    /\ disc.agents[Len(disc.agents)].baseUrl = BaseUrls[MaxUrls]

\* C26: every returned card's endpoint is on the host that served the card,
\* and invoke requests go only to hosts of the discovery list.
C26_EndpointOnServingHost ==
    /\ \A i \in 1..Len(disc.agents) :
          HostOf(disc.agents[i].card.endpoint) = HostOf(disc.agents[i].baseUrl)
    /\ \A url \in disc.posted : \E k \in 1..MaxUrls : HostOf(url) = HostOf(BaseUrls[k])

\* the findings of the merged result, once mergeFindings has returned
Merged == IF outputs = <<>> THEN <<>> ELSE outputs[1].findings

\* (a.file, a.line, a.title) <= (b.file, b.line, b.title), a missing file being
\* "" and a missing line 0, strings in the order of localeCompare
KeyLeq(a, b) ==
    LET fa == IF a.file = NoFile THEN "" ELSE a.file
        fb == IF b.file = NoFile THEN "" ELSE b.file
        la == IF a.line = NoLine THEN 0 ELSE a.line
        lb == IF b.line = NoLine THEN 0 ELSE b.line
    IN  \/ StrRank(fa) < StrRank(fb)
        \/ /\ StrRank(fa) = StrRank(fb)
           /\ \/ la < lb
              \/ la = lb /\ StrRank(a.title) <= StrRank(b.title)

Identity(f) == <<f.title, IF f.file = NoFile THEN "" ELSE f.file, f.line>>

\* C28: the merged findings hold exactly one finding per distinct
\* (title, file, line) of the inputs, namely its first occurrence.
C28_OnePerIdentityFirstKept ==
    outputs # <<>> =>
        LET all == Flatten(results) IN
        /\ Len(Merged) = Cardinality({Identity(all[k]) : k \in 1..Len(all)})
        /\ \A k \in 1..Len(all) :
              (\A j \in 1..(k - 1) : Identity(all[j]) # Identity(all[k]))
                  => \E m \in 1..Len(Merged) : Merged[m] = all[k]

\* C29: bySeverity has the four severity keys, each the number of merged
\* findings of that severity, and they sum to the number of merged findings.
C29_BySeverityCounts ==
    outputs # <<>> =>
        LET by == outputs[1].bySeverity IN
        /\ DOMAIN by = {"critical", "high", "medium", "low"}
        /\ \A sev \in DOMAIN by :
              by[sev] = Cardinality({k \in 1..Len(Merged) : Merged[k].severity = sev})
        /\ by["critical"] + by["high"] + by["medium"] + by["low"] = Len(Merged)

\* a duplicate was dropped and findings of two severities were counted
C29_Witness ==
    /\ outputs # <<>>
    /\ Len(Flatten(results)) > Len(Merged)
    /\ outputs[1].bySeverity["low"] = 1
    /\ outputs[1].bySeverity["high"] = 1

\* C30: any two distinct merged findings compare unequal under the sort key.
C30_TotalOrder ==
    \A i, j \in 1..Len(Merged) :
        i # j => compareFindingsForSort(Merged[i], Merged[j]) # 0

\* the circuit of endpoint e refuses requests at time t: open, cooldown not elapsed
CircuitRefuses(c, e, t) ==
    GetState(c, e) = "open" /\ t - GetCircuit(c, e).lastFailure < cooldownMs

\* C31: no agent request (first attempt, retry or next round) is sent to an
\* endpoint whose circuit is open with its cooldown running at that moment.
C31_Step ==
    \A i \in 1..NPairs :
        (inv'[i].pc = "fetch" /\ (inv[i].pc # "fetch" \/ inv'[i].nReq # inv[i].nReq))
            => ~CircuitRefuses(circuits', Pairs[i].endpoint, now')
C31_NoRequestWhileOpen == [][C31_Step]_vars

\* C32: within one invocation an agent request and a tool call are never in
\* flight together: while an agent request is out every tool call sent so far
\* has completed, and while a tool call is out every agent request has.
C32_NoOverlap ==
    \A i \in 1..NPairs :
        /\ ~(inv[i].nReq > inv[i].nAgentDone /\ inv[i].nToolReq > inv[i].nToolDone)
        /\ inv[i].pc \in {"fetch", "body"} =>
              inv[i].nToolDone = inv[i].nToolReq /\ inv[i].nReq = inv[i].nAgentDone + 1
        /\ inv[i].pc \in {"toolfetch", "toolbody"} =>
              inv[i].nAgentDone = inv[i].nReq /\ inv[i].nToolReq = inv[i].nToolDone + 1

\* the second round's request is out after a tool call and its retry
C32_Witness ==
    \E i \in 1..NPairs :
        /\ inv[i].pc = "fetch"
        /\ inv[i].round = 1
        /\ inv[i].nToolReq = 2
        /\ inv[i].nToolDone = 2

\* C33: once a requested tool call has returned ok, a circuit success is on
\* record for the agent's endpoint (failures 0, state closed) when the next
\* round's request is sent.
C33_ToolOkRecordsSuccess ==
    \A i \in 1..NPairs :
        (inv[i].pc = "fetch" /\ inv[i].round >= 1 /\ inv[i].attempt = 0) =>
            /\ inv[i].nRecS >= Len(inv[i].gathered)
            /\ GetState(circuits, Pairs[i].endpoint) = "closed"
            /\ GetFailureCount(circuits, Pairs[i].endpoint) = 0

\* C34: a tool call is re-sent at most MAX_RETRIES times per round, and only
\* after a transport-level failure (rejected fetch, timeout, dropped body) whose
\* message the retry classifier matches; never after a response of the tool
\* service (a non-2xx status or a result with ok = false).
C34_ToolRetryOnlyTransport ==
    \A i \in 1..NPairs :
        (inv[i].pc = "toolfetch" /\ inv[i].toolAttempt >= 1) =>
            /\ inv[i].toolAttempt <= MAX_RETRIES
            /\ inv[i].ev.kind \in {"toolRejects", "toolTimer", "toolBodyRejects"}
            /\ LowerWords(inv[i].ev.msg) \cap RetryKeywords # {}

\* C35: a need-more-info reply that names no tool ends the invocation at once
\* with the error "Agent requested <request_type> but tool call failed" and
\* empty findings; no tool call is made for it and no agent request follows.
C35_NoToolReturnsAtOnce ==
    \A i \in 1..NPairs :
        inv[i].reply = "nmi_notool" =>
            /\ inv[i].pc = "done"
            /\ inv[i].result.error \in {ErrNoTool(ty) : ty \in RequestTypes}
            /\ inv[i].result.hasFindings /\ inv[i].result.findings = <<>>
            /\ inv[i].ev.kind = "body"
            /\ inv[i].nReq = inv[i].nAgentDone
            /\ inv[i].round \notin inv[i].toolRounds
            /\ inv[i].nToolReq = inv[i].nToolDone

\* the second round's reply named no tool: two requests and one tool call in all
C35_Witness ==
    \E i \in 1..NPairs :
        /\ inv[i].pc = "done"
        /\ inv[i].reply = "nmi_notool"
        /\ inv[i].round = 1
        /\ inv[i].nReq = 2
        /\ inv[i].nToolReq = 1

\* C36: an invocation sends at most 1 + MAX_RETRIES agent requests and at most
\* 1 + MAX_RETRIES tool calls per round, in at most MAX_NEGOTIATION_ROUNDS
\* rounds: at most 4 agent requests and 4 tool calls in all.
C36_BoundedRequests ==
    \A i \in 1..NPairs :
        /\ inv[i].round < MAX_NEGOTIATION_ROUNDS
        /\ inv[i].attempt <= MAX_RETRIES
        /\ inv[i].toolAttempt <= MAX_RETRIES
        /\ inv[i].nReq <= (inv[i].round + 1) * (1 + MAX_RETRIES)
        /\ inv[i].nToolReq <= (inv[i].round + 1) * (1 + MAX_RETRIES)
        /\ inv[i].nReq <= 4
        /\ inv[i].nToolReq <= 4

\* an invocation that sent four agent requests and four tool calls
C36_Witness ==
    \E i \in 1..NPairs :
        /\ inv[i].pc = "done"
        /\ inv[i].nReq = 4
        /\ inv[i].nToolReq = 4

\* C37: an invocation that passed the availability check has recorded nothing
\* on the breaker while it runs and exactly one outcome, a success or a
\* failure, once it has returned.
C37_OneOutcomePerInvocation ==
    \A i \in 1..NPairs :
        /\ inv[i].pc \in {"fetch", "body", "toolfetch", "toolbody"} =>
              inv[i].nRecS + inv[i].nRecF = 0
        /\ (inv[i].pc = "done" /\ inv[i].admit.at # Never) =>
              inv[i].nRecS + inv[i].nRecF = 1

\* C38: the rounds in which a tool is called are as many as the need-more-info
\* replies naming a tool; a call that ends with the max-rounds error called the
\* tool in its last round too, and returned on that tool's answer, which no
\* agent request carried.
C38_ToolCalledEveryRound ==
    \A i \in 1..NPairs :
        /\ Cardinality(inv[i].toolRounds) = inv[i].nNeed
        /\ (inv[i].pc = "done" /\ inv[i].result.error = ErrMaxRounds) =>
              /\ inv[i].toolRounds = 0..(MAX_NEGOTIATION_ROUNDS - 1)
              /\ Len(inv[i].gathered) = MAX_NEGOTIATION_ROUNDS
              /\ inv[i].ev.kind = "toolBody" /\ ~inv[i].ev.err
              /\ inv[i].nAgentDone = inv[i].nReq
              /\ inv[i].nReq <= MAX_NEGOTIATION_ROUNDS * (1 + MAX_RETRIES)

\* the max-rounds error after a tool call in each of the two rounds
C38_Witness ==
    \E i \in 1..NPairs :
        /\ inv[i].pc = "done"
        /\ inv[i].result.error = ErrMaxRounds
        /\ inv[i].nNeed = 2
        /\ inv[i].toolRounds = {0, 1}
        /\ inv[i].nReq = 2

\* C39: a breaker call on one endpoint leaves every other endpoint's circuit,
\* and with it its state, failure count and availability, as it was.
C39_Step ==
    \A e \in Endpoints :
        (circuits'[e] # circuits[e] \/ openedAt'[e] # openedAt[e] \/ consec'[e] # consec[e]
         \/ IsAvailableResult(circuits', e, now') # IsAvailableResult(circuits, e, now'))
            => (cbLast'.ep = e /\ now' = now)
C39_EndpointsIsolated == [][C39_Step]_vars

\* endpoint epB has just been reset while the circuit of epA is open
C39_Witness ==
    /\ cbLast.op = "reset"
    /\ cbLast.ep = "epB"
    /\ cbLast.before = "open"
    /\ GetState(circuits, "epA") = "open"
    /\ circuits["epB"] = NoCircuit

\* C40: a closed circuit counts fewer failures than failureThreshold; an open
\* or half-open one counts at least failureThreshold.
C40_StateMatchesCount ==
    \A e \in Endpoints :
        /\ GetState(circuits, e) = "closed" => GetFailureCount(circuits, e) < failureThreshold
        /\ GetState(circuits, e) \in {"open", "half_open"} =>
              GetFailureCount(circuits, e) >= failureThreshold

\* a probe failed: the circuit is open again with more failures than the threshold
C40_Witness ==
    /\ cbLast.op = "recordFailure"
    /\ cbLast.before = "half_open"
    /\ GetState(circuits, cbLast.ep) = "open"
    /\ GetFailureCount(circuits, cbLast.ep) > failureThreshold

====
